---- MODULE Spec2Model ----
(***************************************************************************)
(* State-machine model of the scoring and game-completion engine of the    *)
(* Diplomacy tournament visualiser (visualiser/tournament/models.py and    *)
(* the sc_counts / draw_vote / create_games views of views.py).            *)
(*                                                                         *)
(* The database is the state.  Every request handler is one action: the    *)
(* handler's code is run to its end (normal return, validation failure or  *)
(* uncaught exception) by the operators below, which thread a database     *)
(* record `db` through the statements of the code.  db.exc is the uncaught *)
(* exception, "" while there is none; once it is set the remaining         *)
(* statements are skipped, and what was written before stays written (the  *)
(* code opens no transaction).  Spec handles the requests one at a time;    *)
(* SpecWriters lets the sc_counts requests for one board interleave at     *)
(* their database statements; SpecScoring calls the scoring functions on   *)
(* their own, with lists, ledgers and system names of bounded sets;        *)
(* SpecQueries calls scores() on what is stored, between the requests.     *)
(*                                                                         *)
(* Scores are floats in the code; here they are integers in units of       *)
(* 1/Unit point, which is exact for every division the bounded model does  *)
(* except the sum-of-squares normalisation, which truncates.               *)
(***************************************************************************)
EXTENDS Integers, Sequences, FiniteSets, TLC

\* ---------------------------------------------------------------- bounds
NumPowers == 3
NumGames == 2
NumRounds == 2
NumPlayers == 4
\* number of game years after the synthetic start year that can be recorded
YearSpan == 2
\* forms (years) in one sc_counts submission
MaxForms == 1
\* draw proposals stored per game
MaxProposals == 2
\* requests that record centre counts for one game at the same time
NumWriters == 2

\* ------------------------------------------------------------- constants
FIRST_YEAR == 1901
TOTAL_SCS == 34
WINNING_SCS == (TOTAL_SCS \div 2) + 1
\* GreatPower.starting_centres of the fixture powers
StartingCentres == 3

\* one point, in score units
Unit == 3 * 4

Powers == 1..NumPowers
Games == 1..NumGames
Rounds == 1..NumRounds
Players == 1..NumPlayers
Years == (FIRST_YEAR - 1)..(FIRST_YEAR - 1 + YearSpan)
\* absent CentreCount row
NoCount == -1
\* Round.final_year = None
NoYear == 0

\* the rows of counts a scorer submits for one year: every power on its
\* starting count, the last power eliminated, and a solo by the first power
CountRows ==
    { [p \in Powers |-> StartingCentres],
      [p \in Powers |-> IF p = NumPowers THEN 0 ELSE StartingCentres],
      [p \in Powers |-> IF p = 1 THEN WINNING_SCS
                        ELSE IF p = 2 THEN StartingCentres ELSE 0] }

\* the years a draw is proposed for (validate_year: none before FIRST_YEAR)
ProposalYears == FIRST_YEAR..(FIRST_YEAR - 1 + YearSpan)

\* the powers a draw is proposed for, where the form asks for them
DrawChoices == {Powers, {1}}

\* the GamePlayer of (game, power): seats are dealt round-robin over the
\* players, so that with more seats than players somebody plays two games
PlayerOf(g, p) == (((g - 1) * NumPowers + (p - 1)) % NumPlayers) + 1

Max(a, b) == IF a >= b THEN a ELSE b
Min(a, b) == IF a <= b THEN a ELSE b

RECURSIVE SumSeq(_)
SumSeq(s) == IF s = <<>> THEN 0 ELSE Head(s) + SumSeq(Tail(s))

SetMax(S) == CHOOSE x \in S : \A y \in S : y <= x
SetMin(S) == CHOOSE x \in S : \A y \in S : x <= y

\* ------------------------------------------------------- scoring: a game
\* the ledger of one game is ccg : [Powers -> [Years -> count or NoCount]]
RecordedYears(ccg) == {y \in Years : \E p \in Powers : ccg[p][y] # NoCount}

GSS_final_year(ccg) == SetMax(RecordedYears(ccg))

\* the powers that have a row for year y
PowersIn(ccg, y) == {p \in Powers : ccg[p][y] # NoCount}

\* order_by('-count'): rows of one year, largest count first (ties in power order)
RECURSIVE OrderByCountDesc(_, _, _)
OrderByCountDesc(ccg, y, ps) ==
    IF ps = {} THEN <<>>
    ELSE LET top == CHOOSE p \in ps : \A q \in ps :
                        \/ ccg[p][y] > ccg[q][y]
                        \/ (ccg[p][y] = ccg[q][y] /\ p <= q)
         IN  <<[power |-> top, count |-> ccg[top][y]]>>
                 \o OrderByCountDesc(ccg, y, ps \ {top})

GSS_final_year_scs(ccg) ==
    LET y == GSS_final_year(ccg) IN OrderByCountDesc(ccg, y, PowersIn(ccg, y))

\* variant of _survivor_count that counts every row of the final year
GSS_survivor_count_all_rows(ccg) ==
    Cardinality(PowersIn(ccg, GSS_final_year(ccg)))

GSS_survivor_count(ccg) ==
    LET y == GSS_final_year(ccg)
    IN  Cardinality({p \in PowersIn(ccg, y) : ccg[p][y] > 0})

\* number of leading rows of cs that tie with the first one
RECURSIVE TiedAtTop(_, _)
TiedAtTop(cs, scs) ==
    IF cs # <<>> /\ Head(cs).count = scs THEN 1 + TiedAtTop(Tail(cs), scs) ELSE 0

\* variant of the sharing loop that gives every tied position the points of
\* the first of them
SharePoints_first_value(rank_points, i) ==
    [j \in 1..Max(Len(rank_points), i) |->
        IF j <= i THEN rank_points[1] ELSE rank_points[j]]

\* variant of the sharing loop that divides by the number of tied positions
\* the list has points for
SharePoints_short_list(rank_points, i) ==
    LET points == SumSeq(SubSeq(rank_points, 1, Min(i, Len(rank_points))))
    IN  [j \in 1..Max(Len(rank_points), i) |->
            IF j <= i THEN points \div Min(i, Len(rank_points)) ELSE rank_points[j]]

\* rank_points after the loop of lines 225-229 has shared `points` over the
\* first i positions (appending positions the list did not have)
SharePoints(rank_points, i) ==
    LET points == SumSeq(SubSeq(rank_points, 1, Min(i, Len(rank_points))))
    IN  [j \in 1..Max(Len(rank_points), i) |->
            IF j <= i THEN points \div i ELSE rank_points[j]]

\* adjust_rank_score: [ret |-> the returned list, err |-> exception or ""]
RECURSIVE adjust_rank_score(_, _)
adjust_rank_score(centre_counts, rank_points) ==
    IF Len(rank_points) = 0
    THEN [ret |-> [k \in 1..Len(centre_counts) |-> 0], err |-> ""]
    ELSE IF centre_counts = <<>>
    THEN [ret |-> <<>>, err |-> "IndexError"]
    ELSE LET i == TiedAtTop(centre_counts, centre_counts[1].count)
             shared == SharePoints(rank_points, i)
             rest == adjust_rank_score(SubSeq(centre_counts, i + 1, Len(centre_counts)),
                                       SubSeq(shared, i + 1, Len(shared)))
         IN  [ret |-> SubSeq(shared, 1, i) \o rest.ret, err |-> rest.err]

\* the caller's list after adjust_rank_score returned: the outermost call
\* writes the shared points into the list it was handed (lines 225-229);
\* the recursive calls work on slices, which are copies
RankPointsAfter(centre_counts, rank_points) ==
    IF Len(rank_points) = 0 \/ centre_counts = <<>>
    THEN rank_points
    ELSE SharePoints(rank_points, TiedAtTop(centre_counts, centre_counts[1].count))

\* ------------------------------------------------ the scoring registries
CDiploNames == {"CDiplo 100", "CDiplo 80"}

\* G_SCORING_SYSTEMS: the names find_game_scoring_system finds
G_SCORING_SYSTEMS ==
    {"Solo or bust", "Draw size", "CDiplo 100", "CDiplo 80", "Sum of Squares"}

\* GScoringCDiplo.__init__ arguments of the two registered instances, in points
CDiploArgs(name) ==
    IF name = "CDiplo 100"
    THEN [soloer_pts |-> 100, played_pts |-> 1, loss_pts |-> 0,
          position_pts |-> <<38, 14, 7>>]
    ELSE [soloer_pts |-> 80, played_pts |-> 0, loss_pts |-> 0,
          position_pts |-> <<25, 14, 7>>]

\* self.position_pts of each registered CDiplo instance when the process starts
InitialPositionPts ==
    [n \in CDiploNames |->
        [j \in 1..Len(CDiploArgs(n).position_pts) |-> CDiploArgs(n).position_pts[j] * Unit]]

\* the score mapping {rows[k].power: values[k]}
ScoreMap(rows, values) ==
    [p \in {rows[k].power : k \in 1..Len(rows)} |->
        values[CHOOSE k \in 1..Len(rows) : rows[k].power = p]]

\* variant of GScoringSolos.scores that looks for the solo in every year
GScoringSolos_scores_any_year(ccg) ==
    LET rows == GSS_final_year_scs(ccg)
        one(k) == IF \E y \in Years : ccg[rows[k].power][y] >= WINNING_SCS
                  THEN 100 * Unit ELSE 0
    IN  ScoreMap(rows, [k \in 1..Len(rows) |-> one(k)])

GScoringSolos_scores(ccg) ==
    LET rows == GSS_final_year_scs(ccg)
        one(k) == IF rows[k].count >= WINNING_SCS THEN 100 * Unit ELSE 0
    IN  ScoreMap(rows, [k \in 1..Len(rows) |-> one(k)])

\* Game.passed_draw: the set of passed proposals (get() needs exactly one)
PassedDraws(dpsg) == {d \in dpsg : d.passed}

\* Game.neutrals(year): the centres of the board that no row of the year holds
Game_neutrals(ccg, y) ==
    TOTAL_SCS - SumSeq([p \in 1..NumPowers |-> IF ccg[p][y] = NoCount THEN 0 ELSE ccg[p][y]])

\* Game.soloer() is not None: the largest count of ANY year reaches the threshold
Game_soloer(ccg) ==
    \E p \in Powers : \E y \in Years : ccg[p][y] >= WINNING_SCS

\* GScoringDrawSize.scores: [sc, err]
GScoringDrawSize_scores(ccg, dpsg) ==
    LET rows == GSS_final_year_scs(ccg)
        passed == PassedDraws(dpsg)
        draw == CHOOSE d \in passed : TRUE
        survivors == GSS_survivor_count(ccg)
        soloed == Game_soloer(ccg)
        one(k) ==
            IF rows[k].count >= WINNING_SCS THEN 100 * Unit
            ELSE IF soloed THEN 0
            ELSE IF passed # {} /\ rows[k].power \in draw.powers
                 THEN (100 * Unit) \div Cardinality(draw.powers)
            ELSE IF rows[k].count > 0 THEN (100 * Unit) \div survivors
            ELSE 0
    IN  IF Cardinality(passed) > 1
        THEN [sc |-> <<>>, err |-> "MultipleObjectsReturned"]
        ELSE [sc |-> ScoreMap(rows, [k \in 1..Len(rows) |-> one(k)]), err |-> ""]

\* variant of GScoringCDiplo.scores that adds the soloer's centres to soloer_pts
GScoringCDiplo_scores_solo_bonus(name, ccg, pts) ==
    LET rows == GSS_final_year_scs(ccg)
        args == CDiploArgs(name)
        adj == adjust_rank_score(rows, pts)
        one(k) ==
            IF rows[1].count >= WINNING_SCS
            THEN IF rows[k].count >= WINNING_SCS
                 THEN args.soloer_pts * Unit + rows[k].count * Unit
                 ELSE args.loss_pts * Unit
            ELSE args.played_pts * Unit + rows[k].count * Unit + adj.ret[k]
    IN  IF adj.err # ""
        THEN [sc |-> <<>>, err |-> adj.err]
        ELSE [sc |-> ScoreMap(rows, [k \in 1..Len(rows) |-> one(k)]), err |-> ""]

\* GScoringCDiplo.scores with self.position_pts = pts: [sc, err]
GScoringCDiplo_scores(name, ccg, pts) ==
    LET rows == GSS_final_year_scs(ccg)
        args == CDiploArgs(name)
        adj == adjust_rank_score(rows, pts)
        one(k) ==
            IF rows[1].count >= WINNING_SCS
            THEN IF rows[k].count >= WINNING_SCS
                 THEN args.soloer_pts * Unit ELSE args.loss_pts * Unit
            ELSE args.played_pts * Unit + rows[k].count * Unit + adj.ret[k]
    IN  IF adj.err # ""
        THEN [sc |-> <<>>, err |-> adj.err]
        ELSE [sc |-> ScoreMap(rows, [k \in 1..Len(rows) |-> one(k)]), err |-> ""]

\* variant of GScoringSumOfSquares.scores that shares by count, not by square
GScoringSumOfSquares_scores_linear(ccg) ==
    LET rows == GSS_final_year_scs(ccg)
        sum_of_counts == SumSeq([k \in 1..Len(rows) |-> rows[k].count])
        solo_found == \E k \in 1..Len(rows) : rows[k].count >= WINNING_SCS
        solo(k) == IF rows[k].count >= WINNING_SCS THEN 100 * Unit ELSE 0
        share(k) == (rows[k].count * 100 * Unit) \div sum_of_counts
    IN  IF solo_found THEN [sc |-> ScoreMap(rows, [k \in 1..Len(rows) |-> solo(k)]), err |-> ""]
        ELSE IF sum_of_counts = 0 THEN [sc |-> <<>>, err |-> "ZeroDivisionError"]
        ELSE [sc |-> ScoreMap(rows, [k \in 1..Len(rows) |-> share(k)]), err |-> ""]

GScoringSumOfSquares_scores(ccg) ==
    LET rows == GSS_final_year_scs(ccg)
        sum_of_squares == SumSeq([k \in 1..Len(rows) |-> rows[k].count * rows[k].count])
        solo_found == \E k \in 1..Len(rows) : rows[k].count >= WINNING_SCS
        solo(k) == IF rows[k].count >= WINNING_SCS THEN 100 * Unit ELSE 0
        share(k) == (rows[k].count * rows[k].count * 100 * Unit) \div sum_of_squares
    IN  IF solo_found THEN [sc |-> ScoreMap(rows, [k \in 1..Len(rows) |-> solo(k)]), err |-> ""]
        ELSE IF sum_of_squares = 0 THEN [sc |-> <<>>, err |-> "ZeroDivisionError"]
        ELSE [sc |-> ScoreMap(rows, [k \in 1..Len(rows) |-> share(k)]), err |-> ""]

\* find_game_scoring_system(name) found a system
find_scoring_system(name, the_list) == name \in the_list

\* what a scoring system returned, with the position_pts lists it leaves behind
Scored(r, pts) == [sc |-> r.sc, pts |-> pts, err |-> r.err]

\* the live branch of Game.scores (lines 1019-1023):
\* [sc |-> mapping, pts |-> the position_pts lists afterwards, err]
GameScoresLive(system, ccg, dpsg, pts) ==
    IF ~find_scoring_system(system, G_SCORING_SYSTEMS)
    THEN [sc |-> <<>>, pts |-> pts, err |-> "InvalidScoringSystem"]
    ELSE IF system = "Solo or bust"
    THEN [sc |-> GScoringSolos_scores(ccg), pts |-> pts, err |-> ""]
    ELSE IF system = "Draw size"
    THEN Scored(GScoringDrawSize_scores(ccg, dpsg), pts)
    ELSE IF system = "Sum of Squares"
    THEN Scored(GScoringSumOfSquares_scores(ccg), pts)
    ELSE Scored(GScoringCDiplo_scores(system, ccg, pts[system]),
                [pts EXCEPT ![system] =
                    RankPointsAfter(GSS_final_year_scs(ccg), pts[system])])

\* ------------------------------------------------------------ the state
VARIABLES
    database,         \* the database, and how the last request ended (below)
    the_round,        \* Game.the_round (fixed when the boards are scheduled)
    scoring_system,   \* Round.scoring_system (the same for every round)
    final_year,       \* Round.final_year, or NoYear (the same for every round)
    dias,             \* Round.dias (the same for every round)
    scope,            \* what the run exercises: one board, or all the boards
    last,             \* the request handled last
    writers,          \* the sc_counts requests in progress side by side
    call              \* the scoring function called last, on its own

vars == <<database, the_round, scoring_system, final_year, dias, scope, last, writers, call>>

\* The database record is threaded through the statements of a handler:
\*   games  the Game rows that exist
\*   cc     CentreCount rows: cc[g][p][y] = count, or NoCount
\*   fin    Game.is_finished
\*   gsc    GamePlayer.score, by game and power
\*   rsc    RoundPlayer.score, by round and player
\*   tsc    TournamentPlayer.score, by player
\*   dps    DrawProposal rows of each game
\*   pts    self.position_pts of the registered CDiplo instances
\* and, of the request being handled,
\*   mem    the is_finished field of the view's Game instance
\*   ret    "ValidationError" once the view has returned the form with an error
\*   exc    the uncaught exception, "" while there is none
\*   ran    entries into Game.save's "if self.is_finished" block
\* and, for the properties,
\*   done   per game: the block under "if self.is_finished" has run to its
\*          end, and no row of the game's ledger or draw proposals has been
\*          written with another value since
games == database.games
cc == database.cc
is_finished == database.fin
gp_score == database.gsc
rp_score == database.rsc
tp_score == database.tsc
proposals == database.dps
position_pts == database.pts

\* TScoringSum.scored_rounds of the configured tournament scoring system
ScoredRounds == 2

\* the database as a request finds it
Begin(g) ==
    [database EXCEPT !.mem = database.fin[g], !.ret = "", !.exc = "", !.ran = 0]

\* Round.game_set, in Meta ordering
Round_game_set(db, r) == {g \in db.games : the_round[g] = r}

\* Round.roundplayer_set: the players checked in for the round's boards
RoundPlayers(r) == {PlayerOf(g, p) : g \in {h \in Games : the_round[h] = r}, p \in Powers}

\* the (game, power) seats a player holds in round r, among the games that exist
SeatsOf(db, r, pl) ==
    {gp \in Round_game_set(db, r) \X Powers : PlayerOf(gp[1], gp[2]) = pl}

\* variant of Round.is_finished without the test for a round with no games
Round_is_finished_no_games(db, r) ==
    \A g \in Round_game_set(db, r) : db.fin[g]

Round_is_finished(db, r) ==
    LET gs == Round_game_set(db, r)
    IN  IF Cardinality(gs) = 0 THEN FALSE
        ELSE \A g \in gs : db.fin[g]

\* variant of Tournament.is_finished that is satisfied by one finished round
Tournament_is_finished_any(db) == \E r \in Rounds : Round_is_finished(db, r)

Tournament_is_finished(db) == \A r \in Rounds : Round_is_finished(db, r)

\* variant of Game.scores that computes the scores of a finished game anew
Game_scores_always_live(db, g, force_recalculation) ==
    GameScoresLive(scoring_system, db.cc[g], db.dps[g], db.pts)

\* Game.scores(force_recalculation): [sc, pts, err]
Game_scores(db, g, force_recalculation) ==
    IF db.fin[g] /\ ~force_recalculation
    THEN [sc |-> [p \in Powers |-> db.gsc[g][p]], pts |-> db.pts, err |-> ""]
    ELSE GameScoresLive(scoring_system, db.cc[g], db.dps[g], db.pts)

\* the loop of RScoringBest.scores, lines 343-344, over the games gs (ascending):
\* [gsc |-> game -> mapping, pts, err]
RSB_add(acc, g, res) ==
    [gsc |-> [h \in DOMAIN acc.gsc \cup {g} |-> IF h = g THEN res.sc ELSE acc.gsc[h]],
     pts |-> res.pts, err |-> res.err]

RECURSIVE RSB_game_scores(_, _, _)
RSB_game_scores(db, gs, acc) ==
    IF gs = {} \/ acc.err # "" THEN acc
    ELSE RSB_game_scores(db, gs \ {SetMin(gs)},
             RSB_add(acc, SetMin(gs),
                     Game_scores([db EXCEPT !.pts = acc.pts], SetMin(gs), FALSE)))

\* variant of lines 345-354 that takes a player's lowest game score
RSB_best_lowest(db, r, gsr) ==
    LET players == {pl \in Players : SeatsOf(db, r, pl) # {}}
        missing == \E pl \in players : \E gp \in SeatsOf(db, r, pl) :
                       gp[2] \notin DOMAIN gsr.gsc[gp[1]]
        worst(pl) == SetMin({gsr.gsc[gp[1]][gp[2]] : gp \in SeatsOf(db, r, pl)})
    IN  IF gsr.err # "" THEN [sc |-> <<>>, pts |-> gsr.pts, err |-> gsr.err]
        ELSE IF missing THEN [sc |-> <<>>, pts |-> gsr.pts, err |-> "KeyError"]
        ELSE [sc |-> [pl \in players |-> worst(pl)], pts |-> gsr.pts, err |-> ""]

\* lines 345-354: each player's best game score, from the game scores gsr
RSB_best(db, r, gsr) ==
    LET players == {pl \in Players : SeatsOf(db, r, pl) # {}}
        missing == \E pl \in players : \E gp \in SeatsOf(db, r, pl) :
                       gp[2] \notin DOMAIN gsr.gsc[gp[1]]
        best(pl) == SetMax({gsr.gsc[gp[1]][gp[2]] : gp \in SeatsOf(db, r, pl)})
    IN  IF gsr.err # "" THEN [sc |-> <<>>, pts |-> gsr.pts, err |-> gsr.err]
        ELSE IF missing THEN [sc |-> <<>>, pts |-> gsr.pts, err |-> "KeyError"]
        ELSE [sc |-> [pl \in players |-> best(pl)], pts |-> gsr.pts, err |-> ""]

\* RScoringBest.scores for round r: [sc |-> player -> score, pts, err]
RScoringBest_scores(db, r) ==
    RSB_best(db, r, RSB_game_scores(db, Round_game_set(db, r),
                                    [gsc |-> <<>>, pts |-> db.pts, err |-> ""]))

\* Round.scores(force_recalculation): [sc, pts, err]
Round_scores(db, r, force_recalculation) ==
    IF Round_is_finished(db, r) /\ ~force_recalculation
    THEN [sc |-> [pl \in RoundPlayers(r) |-> db.rsc[r][pl]], pts |-> db.pts, err |-> ""]
    ELSE RScoringBest_scores(db, r)

\* the loop of TScoringSum.scores, lines 400-401, over the rounds rs (ascending)
TSS_add(acc, r, res) ==
    [rsc |-> [h \in DOMAIN acc.rsc \cup {r} |-> IF h = r THEN res.sc ELSE acc.rsc[h]],
     pts |-> res.pts, err |-> res.err]

RECURSIVE TSS_round_scores(_, _, _)
TSS_round_scores(db, rs, acc) ==
    IF rs = {} \/ acc.err # "" THEN acc
    ELSE TSS_round_scores(db, rs \ {SetMin(rs)},
             TSS_add(acc, SetMin(rs),
                     Round_scores([db EXCEPT !.pts = acc.pts], SetMin(rs), FALSE)))

\* the sum of the n largest members of a list of scores (lines 416-419)
RECURSIVE SumBest(_, _)
SumBest(scores, n) ==
    IF n = 0 \/ scores = <<>> THEN 0
    ELSE LET k == CHOOSE i \in 1..Len(scores) : \A j \in 1..Len(scores) : scores[j] <= scores[i]
         IN  scores[k] + SumBest(SubSeq(scores, 1, k - 1) \o SubSeq(scores, k + 1, Len(scores)),
                                 n - 1)

\* a player's round scores, as a list over the rounds rs (ascending)
RECURSIVE PlayerRoundScores(_, _, _)
PlayerRoundScores(rsc, rs, pl) ==
    IF rs = {} THEN <<>>
    ELSE (IF pl \in DOMAIN rsc[SetMin(rs)] THEN <<rsc[SetMin(rs)][pl]>> ELSE <<>>)
             \o PlayerRoundScores(rsc, rs \ {SetMin(rs)}, pl)

\* variant of lines 405-420 that adds up the first n round scores as they come
TSS_player_score_unsorted(rsc, rs, pl, n) ==
    SumSeq(SubSeq(PlayerRoundScores(rsc, rs, pl), 1,
                  Min(n, Len(PlayerRoundScores(rsc, rs, pl)))))

\* lines 405-420: the score of player pl, who has a RoundPlayer in the rounds
\* rs, from the round scores rsc, under a system with scored_rounds = n
TSS_player_score(rsc, rs, pl, n) == SumBest(PlayerRoundScores(rsc, rs, pl), n)

\* TScoringSum.scores over the RoundPlayers of the tournament: [sc, pts, err]
PlayedRounds == {r \in Rounds : RoundPlayers(r) # {}}

\* lines 403-420: each player's best ScoredRounds round scores, summed
TSS_sum(rsr) ==
    LET players == UNION {RoundPlayers(r) : r \in PlayedRounds}
        total(pl) == TSS_player_score(rsr.rsc,
                                      {r \in PlayedRounds : pl \in RoundPlayers(r)}, pl,
                                      ScoredRounds)
    IN  IF rsr.err # "" THEN [sc |-> <<>>, pts |-> rsr.pts, err |-> rsr.err]
        ELSE [sc |-> [pl \in players |-> total(pl)], pts |-> rsr.pts, err |-> ""]

TScoringSum_scores(db) ==
    TSS_sum(TSS_round_scores(db, PlayedRounds, [rsc |-> <<>>, pts |-> db.pts, err |-> ""]))

\* Tournament.scores(force_recalculation): [sc, pts, err]
Tournament_scores(db, force_recalculation) ==
    IF Tournament_is_finished(db) /\ ~force_recalculation
    THEN [sc |-> [pl \in Players |-> db.tsc[pl]], pts |-> db.pts, err |-> ""]
    ELSE TScoringSum_scores(db)

\* ---------------------------------------------------------- Game.save
Raise(db, e) == [db EXCEPT !.exc = e]

\* the powers a loop in power order reaches before it meets one of `bad`
Before(bad) == {p \in Powers : \A q \in bad : p < q}

\* lines 1246-1252: get_or_create the start-of-game row of every power; a row
\* of that year with another count makes the create hit unique_together
AutoCreateStartCounts(db, g) ==
    LET y0 == FIRST_YEAR - 1
        bad == {p \in Powers : db.cc[g][p][y0] \notin {NoCount, StartingCentres}}
        new == {p \in Before(bad) : db.cc[g][p][y0] = NoCount}
        d == [db EXCEPT !.cc[g] = [p \in Powers |->
                            IF p \in new THEN [@[p] EXCEPT ![y0] = StartingCentres] ELSE @[p]],
                        !.done[g] = @ /\ new = {}]
    IN  IF bad = {} THEN d ELSE Raise(d, "IntegrityError")

\* lines 1265-1269: store the game scores res on the GamePlayers
WriteGameScores(db, g, res) ==
    LET d == [db EXCEPT !.pts = res.pts]
        missing == Powers \ DOMAIN res.sc
        w == [d EXCEPT !.gsc[g] = [p \in Powers |->
                 IF p \in Before(missing) THEN res.sc[p] ELSE @[p]]]
    IN  IF res.err # "" THEN Raise(d, res.err)
        ELSE IF missing # {} THEN Raise(w, "KeyError")
        ELSE w

\* lines 1264-1269: compute the game's scores and store them on its GamePlayers
StoreGameScores(db, g) ==
    WriteGameScores(db, g, GameScoresLive(scoring_system, db.cc[g], db.dps[g], db.pts))

\* variant of lines 1274-1282 without the p.save() of line 1282
WriteRoundScores_unsaved(db, r, res) ==
    IF res.err # "" THEN Raise([db EXCEPT !.pts = res.pts], res.err)
    ELSE [db EXCEPT !.pts = res.pts]

\* lines 1274-1282: store the round scores res on the RoundPlayers
WriteRoundScores(db, r, res) ==
    LET d == [db EXCEPT !.pts = res.pts]
    IN  IF res.err # "" THEN Raise(d, res.err)
        ELSE [d EXCEPT !.rsc[r] = [pl \in DOMAIN @ |->
                 IF pl \in DOMAIN res.sc THEN res.sc[pl] ELSE @[pl]]]

\* lines 1271-1282: if the round is finished, store the round scores
StoreRoundScores(db, r) ==
    IF db.exc # "" \/ ~Round_is_finished(db, r) THEN db
    ELSE WriteRoundScores(db, r, Round_scores(db, r, TRUE))

\* lines 1287-1290: store the tournament scores res on the TournamentPlayers
WriteTournamentScores(db, res) ==
    LET d == [db EXCEPT !.pts = res.pts]
        missing == Players \ DOMAIN res.sc
        w == [d EXCEPT !.tsc = [pl \in Players |->
                 IF \A q \in missing : pl < q THEN res.sc[pl] ELSE @[pl]]]
    IN  IF res.err # "" THEN Raise(d, res.err)
        ELSE IF missing # {} THEN Raise(w, "KeyError")
        ELSE w

\* lines 1284-1290: if the tournament is finished, store the tournament scores
StoreTournamentScores(db) ==
    IF db.exc # "" \/ ~Tournament_is_finished(db) THEN db
    ELSE WriteTournamentScores(db, Tournament_scores(db, TRUE))

\* the block under "if self.is_finished" ran to its end for game g
Finalized(db, g) ==
    IF db.exc # "" THEN db
    ELSE [db EXCEPT !.done[g] = TRUE]

\* lines 1262-1290, the block under "if self.is_finished"
Finalize(db, g) ==
    Finalized(StoreTournamentScores(
                  StoreRoundScores(StoreGameScores([db EXCEPT !.ran = @ + 1], g),
                                   the_round[g])), g)

\* line 1262: "if self.is_finished"
FinalizeIf(db, g, flag) == IF db.exc # "" \/ ~flag THEN db ELSE Finalize(db, g)

\* Game.save of an instance whose is_finished field holds flag
Game_save(db, g, flag) ==
    IF db.exc # "" THEN db
    ELSE FinalizeIf(AutoCreateStartCounts(
                        [db EXCEPT !.games = @ \cup {g}, !.fin[g] = flag], g), g, flag)

\* ------------------------------------------------------- CentreCount
\* variant of CentreCount.clean without the comparison with the year before
CentreCount_clean_final_year_only(db, g, p, year, count) ==
    final_year # NoYear /\ year > final_year

\* CentreCount.clean of (g, p, year, count): TRUE when it raises ValidationError
CentreCount_clean(db, g, p, year, count) ==
    \/ final_year # NoYear /\ year > final_year
    \/ /\ (year - 1) \in Years
       /\ db.cc[g][p][year - 1] # NoCount
       /\ \/ count > 2 * db.cc[g][p][year - 1]
          \/ db.cc[g][p][year - 1] = 0 /\ count > 0

\* the first test of CentreCount.save: the final game year has been played
FinalYearPlayed(year) == final_year # NoYear /\ year = final_year

\* variant of the second test with a strict comparison
SomebodyWon_strict(count) == count > WINNING_SCS

\* the second test of CentreCount.save: somebody won the game
SomebodyWon(count) == count >= WINNING_SCS

\* self.game.is_finished = True; self.game.save(), under a test
FinishGameIf(test, db, g) == IF test THEN Game_save(db, g, TRUE) ELSE db

\* variant of CentreCount.save that leaves a row that is already stored alone
CentreCount_save_insert_only(db, g, p, year, count) ==
    IF db.exc # "" THEN db
    ELSE FinishGameIf(SomebodyWon(count),
             FinishGameIf(FinalYearPlayed(year),
                          [db EXCEPT !.cc[g][p][year] = IF @ = NoCount THEN count ELSE @],
                          g), g)

\* CentreCount.save: write the row, then finish the game if this completes it
CentreCount_save(db, g, p, year, count) ==
    IF db.exc # "" THEN db
    ELSE FinishGameIf(SomebodyWon(count),
             FinishGameIf(FinalYearPlayed(year),
                          [db EXCEPT !.cc[g][p][year] = count,
                                     !.done[g] = @ /\ db.cc[g][p][year] = count], g), g)

\* ------------------------------------------------- the sc_counts view
\* a submitted form: [year |-> y, counts |-> [Powers -> count]]
TotalScs(form) == SumSeq([p \in 1..NumPowers |-> form.counts[p]])

\* SCCountForm.clean accepts the form
SCCountForm_valid(form) == TotalScs(form) <= TOTAL_SCS

\* BaseSCCountFormset.clean accepts the forms: no year twice, neutrals only go down
BaseSCCountFormset_valid(forms) ==
    /\ \A i, j \in 1..Len(forms) : i # j => forms[i].year # forms[j].year
    /\ \A i, j \in 1..Len(forms) :
           forms[i].year < forms[j].year => TotalScs(forms[i]) <= TotalScs(forms[j])

\* the request is over: the view returned the form with an error, or raised
Over(db) == db.ret # "" \/ db.exc # ""

\* lines 1782-1809 for one power of one form
SCRow(db, g, year, p, value) ==
    IF Over(db) THEN db
    ELSE LET existing == db.cc[g][p][year] # NoCount
             \* a new row holds the view's g; a fetched row loads its own Game
             saved == CentreCount_save(db, g, p, year, value)
         IN  IF CentreCount_clean(db, g, p, year, value)
             THEN \* i.delete(): removes the stored row; fails on an unsaved one
                  IF existing
                  THEN [db EXCEPT !.cc[g][p][year] = NoCount, !.done[g] = FALSE,
                                  !.ret = "ValidationError"]
                  ELSE Raise(db, "AssertionError")
             ELSE [saved EXCEPT !.mem = @ \/ (~existing /\ (FinalYearPlayed(year)
                                                           \/ SomebodyWon(value)))]

RECURSIVE SCRows(_, _, _, _)
SCRows(db, g, form, p) ==
    IF p > NumPowers THEN db
    ELSE SCRows(SCRow(db, g, form.year, p, form.counts[p]), g, form, p + 1)

\* lines 1810-1813: we now have final CentreCounts
SCFormEnd(db, g, form) ==
    IF Over(db) THEN db
    ELSE IF form.year = final_year \/ (\E p \in Powers : form.counts[p] >= WINNING_SCS)
    THEN Game_save([db EXCEPT !.mem = TRUE], g, TRUE)
    ELSE db

RECURSIVE SCForms(_, _, _)
SCForms(db, g, forms) ==
    IF forms = <<>> THEN db
    ELSE SCForms(SCFormEnd(SCRows(db, g, Head(forms), 1), g, Head(forms)), g, Tail(forms))

\* variant of lines 1814-1817 that leaves the checkbox out
SCSetGameOver_no_checkbox(db, g, ended) ==
    IF Over(db) THEN db
    ELSE Game_save(db, g, db.mem)

\* variant of lines 1814-1817 that stores the checkbox alone
SCSetGameOver_checkbox_alone(db, g, ended) ==
    IF Over(db) THEN db
    ELSE Game_save([db EXCEPT !.mem = ended], g, ended)

\* lines 1814-1817: the "game over" flag
SCSetGameOver(db, g, ended) ==
    IF Over(db) THEN db
    ELSE Game_save([db EXCEPT !.mem = db.mem \/ ended], g, db.mem \/ ended)

\* the POST branch of sc_counts: nothing is done unless the forms are valid
sc_counts(db, g, forms, ended) ==
    IF /\ \A i \in 1..Len(forms) : SCCountForm_valid(forms[i])
       /\ BaseSCCountFormset_valid(forms)
    THEN SCSetGameOver(SCForms(db, g, forms), g, ended)
    ELSE [db EXCEPT !.ret = "invalid"]

\* ------------------------------------------------------ DrawProposal
\* a proposal row: [year, passed, powers]

\* "sc.power in powers" of DrawProposal.clean: powers holds the primary keys
\* read from __dict__, sc.power is a GreatPower, and a model instance never
\* equals a number
InDrawPowers(p, powers) == FALSE

\* variant of DrawProposal.clean without the test for a passed proposal
DrawProposal_clean_any_number_passed(db, g, passed, powers) ==
    LET y == GSS_final_year(db.cc[g])
    IN  IF \E p \in PowersIn(db.cc[g], y) :
               \/ InDrawPowers(p, powers) /\ db.cc[g][p][y] = 0
               \/ ~InDrawPowers(p, powers) /\ dias /\ db.cc[g][p][y] > 0
        THEN "ValidationError"
        ELSE ""

\* variant of DrawProposal.clean that wants every survivor in every round
DrawProposal_clean_always_dias(db, g, passed, powers) ==
    IF passed /\ Cardinality(PassedDraws(db.dps[g])) > 1 THEN "MultipleObjectsReturned"
    ELSE IF passed /\ PassedDraws(db.dps[g]) # {} THEN "ValidationError"
    ELSE IF \E p \in PowersIn(db.cc[g], GSS_final_year(db.cc[g])) :
                db.cc[g][p][GSS_final_year(db.cc[g])] > 0
         THEN "ValidationError"
    ELSE ""

\* DrawProposal.clean: "" or the exception
DrawProposal_clean(db, g, passed, powers) ==
    LET y == GSS_final_year(db.cc[g])
        rows == PowersIn(db.cc[g], y)
        others == PassedDraws(db.dps[g])
    IN  IF passed /\ Cardinality(others) > 1 THEN "MultipleObjectsReturned"
        ELSE IF passed /\ others # {} THEN "ValidationError"
        ELSE IF \E p \in rows :
                    \/ InDrawPowers(p, powers) /\ db.cc[g][p][y] = 0
                    \/ ~InDrawPowers(p, powers) /\ dias /\ db.cc[g][p][y] > 0
             THEN "ValidationError"
        ELSE ""

\* variant of DrawProposal.save without the test of line 1370
DrawProposal_save_any(db, g, prop) ==
    Game_save([db EXCEPT !.dps[g] = @ \cup {prop}, !.done[g] = @ /\ prop \in db.dps[g],
                         !.mem = TRUE], g, TRUE)

\* DrawProposal.save
DrawProposal_save(db, g, prop) ==
    LET d == [db EXCEPT !.dps[g] = @ \cup {prop}, !.done[g] = @ /\ prop \in db.dps[g]]
    IN  IF prop.passed THEN Game_save([d EXCEPT !.mem = TRUE], g, TRUE) ELSE d

\* Game.survivors(year), called by draw_vote: the powers alive in that year
Game_survivors(ccg, y) == {p \in PowersIn(ccg, y) : ccg[p][y] > 0}

\* the powers draw_vote puts in the proposal (lines 1888-1896)
DrawVotePowers(db, g, year, chosen) ==
    IF dias
    THEN Game_survivors(db.cc[g], SetMax({y \in RecordedYears(db.cc[g]) : y < year}))
    ELSE chosen

\* the proposal's powers leave out a power with centres in the last recorded year
OmitsSurvivor(ccg, powers) ==
    \E p \in PowersIn(ccg, GSS_final_year(ccg)) :
        p \notin powers /\ ccg[p][GSS_final_year(ccg)] > 0

\* the proposal's powers include a power with no centres in the last recorded year
IncludesDead(ccg, powers) ==
    \E p \in PowersIn(ccg, GSS_final_year(ccg)) :
        p \in powers /\ ccg[p][GSS_final_year(ccg)] = 0

\* draw_vote for a valid form
draw_vote(db, g, year, passed, chosen) ==
    LET powers == DrawVotePowers(db, g, year, chosen)
        e == DrawProposal_clean(db, g, passed, powers)
    IN  IF powers = {} \/ e = "ValidationError"
        THEN [db EXCEPT !.ret = "ValidationError"]
        ELSE IF e # "" THEN Raise(db, e)
        ELSE DrawProposal_save(db, g, [year |-> year, passed |-> passed, powers |-> powers])

\* ------------------------------------------------------- the requests
\* how the boards are scheduled into rounds: round 1 first, no round skipped
Schedules ==
    {f \in [Games -> Rounds] :
        /\ f[1] = 1
        /\ \A g \in Games : g > 1 => f[g] \in {f[g - 1], f[g - 1] + 1}}

FinalYearChoices == {NoYear, FIRST_YEAR}

\* the game scoring systems the rounds are configured with
SystemChoices == {"Draw size", "CDiplo 100", "Sum of Squares"}

\* A run exercises one board with the counts of the game years and draw
\* votes ("board"), one board with counts for the start year and draw votes
\* ("start"), or all the boards with the first year's counts and the "game
\* ended" box only ("rounds").
Scopes == {"board", "start", "rounds"}

BoardsIn(sc) == IF sc = "rounds" THEN Games ELSE {1}

\* the rows of counts submitted in "totals": a solo by the first power, a
\* solo by the second, no solo, and more centres than the board has
TotalsRows ==
    { [p \in Powers |-> IF p = 1 THEN WINNING_SCS
                        ELSE IF p = 2 THEN StartingCentres ELSE 0],
      [p \in Powers |-> IF p = 2 THEN WINNING_SCS ELSE 0],
      [p \in Powers |-> IF p = NumPowers THEN 0 ELSE StartingCentres],
      [p \in Powers |-> IF p \in {1, 2} THEN WINNING_SCS ELSE 0] }

YearsIn(sc) ==
    IF sc = "board" THEN Years \ {FIRST_YEAR - 1}
    ELSE IF sc = "start" THEN {FIRST_YEAR - 1}
    ELSE IF sc = "totals" THEN {FIRST_YEAR - 1, FIRST_YEAR - 1 + YearSpan}
    ELSE {FIRST_YEAR}

\* the draw proposals a board takes: a second one only in "start"
ProposalsIn(sc) == IF sc = "start" THEN MaxProposals ELSE 1

RowsIn(sc) ==
    IF sc = "rounds" THEN {r \in CountRows : r[1] < WINNING_SCS}
    ELSE IF sc = "totals" THEN TotalsRows
    ELSE CountRows

SubmittedForms(sc) == [year : YearsIn(sc), counts : RowsIn(sc)]

Submissions(sc) == UNION {[1..n -> SubmittedForms(sc)] : n \in 1..MaxForms}

\* replaced: the request gave a stored CentreCount row another count;
\* omitted: the draw was proposed without a power that has centres in the
\* last recorded year
NoRequest ==
    [op |-> "none", game |-> 0, was_finished |-> FALSE, ended |-> FALSE, passed |-> FALSE,
     replaced |-> FALSE, omitted |-> FALSE]

\* how the last request ended: "ok" for a redirect, the validation error the
\* page shows, or the uncaught exception
Result == IF database.exc # "" THEN database.exc
          ELSE IF database.ret # "" THEN database.ret ELSE "ok"

\* the sc_counts requests that run side by side
Writers == 1..NumWriters

\* a request that has not come in: of each request the state holds
\*   pc       "idle", "rows" (before full_clean of row k), "cleaned" (before
\*            save of row k), "final" (after the rows) or "done"
\*   year, counts, ended   the submitted form and the "game ended" box
\*   k        the power whose row is next
\*   fetched  row k was found in the database (else it is a new instance)
\*   mem      the is_finished field of the request's Game instance
\*   out      how the request ended
IdleWriter ==
    [pc |-> "idle", year |-> NoYear, counts |-> [p \in Powers |-> NoCount],
     ended |-> FALSE, k |-> 0, fetched |-> FALSE, mem |-> FALSE, out |-> ""]

\* no scoring function has been called on its own: of each call the state holds
\*   fn       "adjust_rank_score", "Game.scores", "Round.scores" or
\*            "Tournament.scores"
\*   C, P     the counts and the position list handed to adjust_rank_score
\*            (for Game.scores, P is self.position_pts as the call found it)
\*   ret      the list adjust_rank_score returned
\*   after    the caller's position list once adjust_rank_score is over
\*   ccg, dps the ledger and the draw proposals of the game that is scored
\*   name     the scoring system name that is looked up
\*   sc, err  the mapping scores() returned, or the exception
\*   value    the number handed to a validator
\*   rps      the RoundPlayer rows handed to TScoringSum.scores, as
\*            <<round, player>>
\*   rsc      what Round.scores() returned for each of their rounds
\*   id, force   the stored game or round scores() is called on, and its
\*            force_recalculation argument
\*   parts    what the scores() calls of RScoringBest.scores returned, by game
NoCall ==
    [fn |-> "none", C |-> <<>>, P |-> <<>>, ret |-> <<>>, after |-> <<>>,
     ccg |-> [p \in Powers |-> [y \in Years |-> NoCount]], dps |-> {},
     name |-> "", sc |-> <<>>, err |-> "", value |-> 0, rps |-> {}, rsc |-> <<>>,
     id |-> 0, force |-> FALSE, parts |-> <<>>]

Config == UNCHANGED <<the_round, scoring_system, final_year, dias, scope, writers, call>>

\* the database before the first board is created
EmptyDatabase ==
    [games |-> {},
     cc |-> [g \in Games |-> [p \in Powers |-> [y \in Years |-> NoCount]]],
     fin |-> [g \in Games |-> FALSE],
     gsc |-> [g \in Games |-> [p \in Powers |-> 0]],
     rsc |-> [r \in Rounds |-> [pl \in RoundPlayers(r) |-> 0]],
     tsc |-> [pl \in Players |-> 0],
     dps |-> [g \in Games |-> {}],
     pts |-> InitialPositionPts,
     done |-> [g \in Games |-> FALSE],
     mem |-> FALSE, ret |-> "", exc |-> "", ran |-> 0]

Init ==
    /\ the_round \in Schedules
    /\ scoring_system \in SystemChoices
    /\ final_year \in FinalYearChoices
    /\ dias \in BOOLEAN
    /\ scope \in Scopes
    /\ scope # "rounds" => \A g \in Games : the_round[g] = 1
    /\ scope # "board" => ~dias
    /\ database = EmptyDatabase
    /\ last = NoRequest
    /\ writers = [w \in Writers |-> IdleWriter]
    /\ call = NoCall

\* create_games: a new board; Game.save runs with is_finished at its default
CreateGame(g) ==
    /\ g \notin games
    /\ database' = Game_save(Begin(g), g, FALSE)
    /\ last' = [NoRequest EXCEPT !.op = "create_games", !.game = g]
    /\ Config

\* Game.save of a board as it is stored
SaveGame(g) ==
    /\ g \in games
    /\ database' = Game_save(Begin(g), g, is_finished[g])
    /\ last' = [NoRequest EXCEPT !.op = "game_save", !.game = g,
                                 !.was_finished = is_finished[g]]
    /\ Config

\* POST to sc_counts
PostScCounts(g, forms, ended) ==
    /\ g \in games
    /\ database' = sc_counts(Begin(g), g, forms, ended)
    /\ last' = [NoRequest EXCEPT !.op = "sc_counts", !.game = g,
                                 !.was_finished = is_finished[g], !.ended = ended,
                                 !.replaced = \E p \in Powers : \E y \in Years :
                                     cc[g][p][y] \notin {NoCount, database'.cc[g][p][y]}]
    /\ Config

\* POST to draw_vote
PostDrawVote(g, year, passed, chosen) ==
    /\ g \in games
    /\ Cardinality(proposals[g]) < ProposalsIn(scope)
    /\ database' = draw_vote(Begin(g), g, year, passed, chosen)
    /\ last' = [NoRequest EXCEPT !.op = "draw_vote", !.game = g,
                                 !.was_finished = is_finished[g], !.passed = passed,
                                 !.omitted = OmitsSurvivor(cc[g],
                                     DrawVotePowers(database, g, year, chosen))]
    /\ Config

Next ==
    \/ \E g \in BoardsIn(scope) : CreateGame(g)
    \/ \E g \in Games : SaveGame(g)
    \/ \E g \in Games : \E forms \in Submissions(scope) : \E ended \in BOOLEAN :
           PostScCounts(g, forms, ended)
    \/ \E g \in Games : \E year \in ProposalYears : \E passed \in BOOLEAN :
           \E chosen \in DrawChoices : scope # "rounds" /\ PostDrawVote(g, year, passed, chosen)

Spec == Init /\ [][Next]_vars

\* ------------------------------------- sc_counts requests side by side
\* Nothing in the code serializes requests: no transaction, no lock, no
\* select_for_update.  Here the requests for one board interleave at the
\* statements that read or write the database: the load of the Game, the
\* full_clean of a row (with the fetch before it), the save of a row, and
\* the g.save() calls after the rows.

\* the board the requests are for
WritersGame == 1

\* the forms the requests submit
WriterForms == [year : Years \ {FIRST_YEAR - 1}, counts : CountRows]

\* the database as the code of request w sees it
AsWriter(w) ==
    [database EXCEPT !.mem = writers[w].mem, !.ret = "", !.exc = "", !.ran = 0]

\* what the code of a request leaves in the database
Stored(d) == [d EXCEPT !.mem = FALSE, !.ret = "", !.exc = "", !.ran = 0]

\* how the code of a request ended
Outcome(d) == IF d.exc # "" THEN d.exc ELSE d.ret

\* one board has been created; no request has come in
InitWriters ==
    /\ the_round = [g \in Games |-> 1]
    /\ scoring_system \in SystemChoices
    /\ final_year \in FinalYearChoices
    /\ dias = FALSE
    /\ scope = "board"
    /\ database = Stored(Game_save(EmptyDatabase, WritersGame, FALSE))
    /\ last = NoRequest
    /\ writers = [w \in Writers |-> IdleWriter]
    /\ call = NoCall

Others == UNCHANGED <<the_round, scoring_system, final_year, dias, scope, last, call>>

\* lines 1754-1769: the Game is loaded and the forms are valid
WriterLoad(w, form, ended) ==
    /\ writers[w].pc = "idle"
    /\ SCCountForm_valid(form)
    /\ writers' = [writers EXCEPT ![w] =
           [pc |-> "rows", year |-> form.year, counts |-> form.counts, ended |-> ended,
            k |-> 1, fetched |-> FALSE, mem |-> is_finished[WritersGame], out |-> ""]]
    /\ UNCHANGED database
    /\ Others

\* lines 1786-1807 for row k: fetch or build the row and full_clean it; a
\* row that fails is deleted and the form returned
WriterClean(w) ==
    /\ writers[w].pc = "rows"
    /\ IF CentreCount_clean(database, WritersGame, writers[w].k, writers[w].year,
                            writers[w].counts[writers[w].k])
       THEN IF cc[WritersGame][writers[w].k][writers[w].year] # NoCount
            THEN /\ database' = [database EXCEPT
                                    !.cc[WritersGame][writers[w].k][writers[w].year] = NoCount,
                                    !.done[WritersGame] = FALSE]
                 /\ writers' = [writers EXCEPT ![w].pc = "done",
                                               ![w].out = "ValidationError"]
            ELSE /\ UNCHANGED database
                 /\ writers' = [writers EXCEPT ![w].pc = "done",
                                               ![w].out = "AssertionError"]
       ELSE /\ UNCHANGED database
            /\ writers' = [writers EXCEPT
                   ![w].pc = "cleaned",
                   ![w].fetched = cc[WritersGame][writers[w].k][writers[w].year] # NoCount]
    /\ Others

\* request w after i.save() of its row k left the database as d
AfterSave(me, d) ==
    [me EXCEPT !.pc = IF d.exc # "" THEN "done"
                      ELSE IF me.k = NumPowers THEN "final" ELSE "rows",
               !.k = IF d.exc # "" \/ me.k = NumPowers THEN @ ELSE @ + 1,
               !.mem = @ \/ (~me.fetched /\ (FinalYearPlayed(me.year)
                                              \/ SomebodyWon(me.counts[me.k]))),
               !.out = Outcome(d)]

\* line 1809 for row k: i.save(); the INSERT of a new instance fails when
\* the row has been stored in the meantime (unique_together)
WriterSave(w) ==
    /\ writers[w].pc = "cleaned"
    /\ IF ~writers[w].fetched /\ cc[WritersGame][writers[w].k][writers[w].year] # NoCount
       THEN /\ UNCHANGED database
            /\ writers' = [writers EXCEPT ![w].pc = "done", ![w].out = "IntegrityError"]
       ELSE /\ database' = Stored(CentreCount_save(AsWriter(w), WritersGame, writers[w].k,
                                   writers[w].year, writers[w].counts[writers[w].k]))
            /\ writers' = [writers EXCEPT ![w] =
                   AfterSave(@, CentreCount_save(AsWriter(w), WritersGame, writers[w].k,
                                    writers[w].year, writers[w].counts[writers[w].k]))]
    /\ Others

\* request w after the g.save() calls of lines 1810-1817 left the database as d
AfterFinish(me, d) == [me EXCEPT !.pc = "done", !.mem = d.mem, !.out = Outcome(d)]

\* the database after lines 1810-1817 of request w
WriterFinished(w) ==
    SCSetGameOver(SCFormEnd(AsWriter(w), WritersGame,
                            [year |-> writers[w].year, counts |-> writers[w].counts]),
                  WritersGame, writers[w].ended)

\* lines 1810-1817: the request's Game instance is saved with its flag
WriterFinish(w) ==
    /\ writers[w].pc = "final"
    /\ database' = Stored(WriterFinished(w))
    /\ writers' = [writers EXCEPT ![w] = AfterFinish(@, WriterFinished(w))]
    /\ Others

NextWriters ==
    \E w \in Writers :
        \/ \E form \in WriterForms : \E ended \in BOOLEAN : WriterLoad(w, form, ended)
        \/ WriterClean(w)
        \/ WriterSave(w)
        \/ WriterFinish(w)

SpecWriters == InitWriters /\ [][NextWriters]_vars

\* --------------------------------------- the scoring functions on their own
\* The scoring functions are called with lists, ledgers and names of bounded
\* sets; self.position_pts of the registered CDiplo instances lives as long
\* as the process and is carried from one call to the next.

\* rows in a list handed to adjust_rank_score
MaxRows == 4

\* one point of a position list handed to adjust_rank_score directly: fine
\* enough for every share the bounded lists are split into (the code's
\* position lists hold floats)
Fine == Unit * 5 * 7

\* the counts of the rows handed to adjust_rank_score
RowCounts == {0, 6, 10}

\* lists of counts, highest first, and a final year of seven powers
CountLists ==
    UNION {{s \in [1..n -> RowCounts] : \A i \in 1..(n - 1) : s[i] >= s[i + 1]} :
              n \in 0..MaxRows}
        \cup {<<10, 10, 6, 0, 0, 0, 0>>}

\* position lists, in points: none, those of the registered CDiplo systems,
\* and a list of two places
PointLists == {<<>>, <<38, 14, 7>>, <<25, 14, 7>>, <<25, 14>>}

Points(s) == [j \in 1..Len(s) |-> s[j] * Fine]

\* list(final_scs): the CentreCount rows of the counts C
Rows(C) == [k \in 1..Len(C) |-> [power |-> k, count |-> C[k]]]

\* the counts a power holds at the end of a year
ScoreCounts == {0, 6, 10, WINNING_SCS}

\* one year's rows of a game: no more centres than the board has
Distributions ==
    {d \in [Powers -> ScoreCounts] : SumSeq([p \in 1..NumPowers |-> d[p]]) <= TOTAL_SCS}

\* a year that has not been recorded
NoRows == [p \in Powers |-> NoCount]

\* the year before the last: not recorded, or won by the first power
EarlierRows ==
    {NoRows, [p \in Powers |-> IF p = 1 THEN WINNING_SCS ELSE 0]}

\* the ledger of a game with the start rows and up to two game years
Ledger(earlier, final) ==
    [p \in Powers |-> [y \in Years |->
        IF y = FIRST_YEAR - 1 THEN StartingCentres
        ELSE IF y = FIRST_YEAR THEN earlier[p]
        ELSE IF y = FIRST_YEAR + 1 THEN final[p]
        ELSE NoCount]]

Ledgers == {Ledger(e, f) : e \in EarlierRows, f \in Distributions \cup {NoRows}}

\* the draw proposals of the game that is scored: none, or one that passed
\* for all the powers, for all but the last, or for the first alone
PassedDrawOf(powers) == [year |-> FIRST_YEAR + 1, passed |-> TRUE, powers |-> powers]

DrawsOf(system) ==
    IF system = "Draw size"
    THEN {{}, {PassedDrawOf(Powers)}, {PassedDrawOf(Powers \ {NumPowers})},
          {PassedDrawOf({1})}}
    ELSE {{}}

\* R_SCORING_SYSTEMS and T_SCORING_SYSTEMS: the names the lookups find
R_SCORING_SYSTEMS == {"Best game counts"}

T_SCORING_SYSTEMS == {"Sum best 2 rounds", "Sum best 3 rounds", "Sum best 4 rounds"}

\* names that are looked up: GameScoringSystem.name of the abstract base
\* class is the empty string
UnknownNames == {"", "Unknown"}

\* variant of Round.scores that falls back to the base class's empty mapping
Round_scores_named_or_empty(name, db, r, force_recalculation) ==
    IF Round_is_finished(db, r) /\ ~force_recalculation
    THEN [sc |-> [pl \in RoundPlayers(r) |-> db.rsc[r][pl]], pts |-> db.pts, err |-> ""]
    ELSE IF ~find_scoring_system(name, R_SCORING_SYSTEMS)
    THEN [sc |-> <<>>, pts |-> db.pts, err |-> ""]
    ELSE RScoringBest_scores(db, r)

\* Round.scores of a round whose tournament has round_scoring_system = name
Round_scores_named(name, db, r, force_recalculation) ==
    IF Round_is_finished(db, r) /\ ~force_recalculation
    THEN [sc |-> [pl \in RoundPlayers(r) |-> db.rsc[r][pl]], pts |-> db.pts, err |-> ""]
    ELSE IF ~find_scoring_system(name, R_SCORING_SYSTEMS)
    THEN [sc |-> <<>>, pts |-> db.pts, err |-> "InvalidScoringSystem"]
    ELSE RScoringBest_scores(db, r)

\* Tournament.scores of a tournament with tournament_scoring_system = name
\* (the boards of this specification are all of one round, where the best
\* two, three and four round scores of a player add up to the same)
Tournament_scores_named(name, db, force_recalculation) ==
    IF Tournament_is_finished(db) /\ ~force_recalculation
    THEN [sc |-> [pl \in Players |-> db.tsc[pl]], pts |-> db.pts, err |-> ""]
    ELSE IF ~find_scoring_system(name, T_SCORING_SYSTEMS)
    THEN [sc |-> <<>>, pts |-> db.pts, err |-> "InvalidScoringSystem"]
    ELSE TScoringSum_scores(db)

\* variant of validate_year_including_start that refuses the start year too
validate_year_including_start_no_start(value) ==
    IF value < FIRST_YEAR THEN "ValidationError" ELSE ""

\* the validators of the model fields: "" or the exception
validate_year_including_start(value) ==
    IF value < FIRST_YEAR - 1 THEN "ValidationError" ELSE ""

validate_year(value) ==
    IF value < FIRST_YEAR THEN "ValidationError" ELSE ""

validate_sc_count(value) ==
    IF value < 0 \/ value > TOTAL_SCS THEN "ValidationError" ELSE ""

Validators == {"validate_year", "validate_year_including_start", "validate_sc_count"}

\* the numbers the validators are tried on: around the ends of the ranges
ValidatedValues ==
    {-1, 0, 1, TOTAL_SCS - 1, TOTAL_SCS, TOTAL_SCS + 1,
     FIRST_YEAR - 2, FIRST_YEAR - 1, FIRST_YEAR, FIRST_YEAR + 1}

\* what the validator fn does with value
RunValidator(fn, value) ==
    IF fn = "validate_year" THEN validate_year(value)
    ELSE IF fn = "validate_year_including_start" THEN validate_year_including_start(value)
    ELSE validate_sc_count(value)

\* rounds of a tournament handed to TScoringSum.scores
MaxRoundsPlayed == 3

\* scored_rounds of the registered tournament scoring systems
ScoredRoundsOf(name) ==
    IF name = "Sum best 2 rounds" THEN 2
    ELSE IF name = "Sum best 3 rounds" THEN 3
    ELSE 4

\* the RoundPlayer rows of a tournament: the first player plays every round,
\* the second the first round only
RoundPlayerRows == ({1} \X {1, 2}) \cup ((2..MaxRoundsPlayed) \X {1})

\* round scores, in points
RoundScoreValues == {10, 30}

\* what Round.scores() can return for round r of the rows rps: a score for
\* every player of the round, or for every player but the second (checked
\* in at roll call, but did not play)
RoundScoreMaps(rps, r) ==
    [{pl \in {1, 2} : <<r, pl>> \in rps} -> {v * Unit : v \in RoundScoreValues}]
        \cup (IF <<r, 2>> \in rps
              THEN [{pl \in {1} : <<r, pl>> \in rps} -> {v * Unit : v \in RoundScoreValues}]
              ELSE {})

\* what the scores() of the first n rounds can return, round by round
RECURSIVE RoundScoreLists(_, _)
RoundScoreLists(rps, n) ==
    IF n = 0 THEN {<<>>}
    ELSE {Append(rsc, m) : rsc \in RoundScoreLists(rps, n - 1), m \in RoundScoreMaps(rps, n)}

\* TScoringSum.scores(round_players) of the system `name`, the rounds'
\* scores() having returned rsc: the mapping player -> score
TScoringSum_scores_of(name, rps, rsc) ==
    [pl \in {rp[2] : rp \in rps} |->
        TSS_player_score(rsc, {rp[1] : rp \in {x \in rps : x[2] = pl}}, pl,
                         ScoredRoundsOf(name))]

\* one board in progress, with its start rows; the round's game scoring
\* system is any registered name or a name that is not registered
InitScoring ==
    /\ the_round = [g \in Games |-> 1]
    /\ scoring_system \in G_SCORING_SYSTEMS \cup UnknownNames
    /\ final_year = NoYear
    /\ dias = FALSE
    /\ scope = "board"
    /\ database = Stored(Game_save(EmptyDatabase, 1, FALSE))
    /\ last = NoRequest
    /\ writers = [w \in Writers |-> IdleWriter]
    /\ call = NoCall

Rest == UNCHANGED <<the_round, scoring_system, final_year, dias, scope, last, writers>>

\* adjust_rank_score(list of the rows of C, P)
CallAdjustRankScore(C, P) ==
    /\ call' = [NoCall EXCEPT !.fn = "adjust_rank_score", !.C = C, !.P = P,
                              !.ret = adjust_rank_score(Rows(C), P).ret,
                              !.err = adjust_rank_score(Rows(C), P).err,
                              !.after = RankPointsAfter(Rows(C), P)]
    /\ UNCHANGED database
    /\ Rest

\* what the call of Game.scores left in `call`
GameScoresCalled(ccg, dpsg, before, res) ==
    [NoCall EXCEPT !.fn = "Game.scores", !.name = scoring_system, !.ccg = ccg,
                   !.dps = dpsg, !.sc = res.sc, !.err = res.err,
                   !.P = IF scoring_system \in CDiploNames THEN before[scoring_system]
                         ELSE <<>>,
                   !.after = IF scoring_system \in CDiploNames THEN res.pts[scoring_system]
                             ELSE <<>>]

\* Game.scores() of a game in progress with ledger ccg and proposals dpsg
CallGameScores(ccg, dpsg) ==
    /\ call' = GameScoresCalled(ccg, dpsg, database.pts,
                   GameScoresLive(scoring_system, ccg, dpsg, database.pts))
    /\ database' = [database EXCEPT
                        !.pts = IF scoring_system \in CDiploNames
                                THEN [@ EXCEPT ![scoring_system] = call'.after]
                                ELSE @]
    /\ Rest

\* what a call of Round.scores or Tournament.scores left in `call`
ScoresCalled(fn, name, res) ==
    [NoCall EXCEPT !.fn = fn, !.name = name, !.sc = res.sc, !.err = res.err]

\* Round.scores() of the first round
CallRoundScores(name) ==
    /\ call' = ScoresCalled("Round.scores", name,
                            Round_scores_named(name, database, 1, FALSE))
    /\ UNCHANGED database
    /\ Rest

\* Tournament.scores()
CallTournamentScores(name) ==
    /\ call' = ScoresCalled("Tournament.scores", name,
                            Tournament_scores_named(name, database, FALSE))
    /\ UNCHANGED database
    /\ Rest

\* a validator of a model field is run on a number
CallValidator(fn, value) ==
    /\ call' = [NoCall EXCEPT !.fn = fn, !.value = value, !.err = RunValidator(fn, value)]
    /\ UNCHANGED database
    /\ Rest

\* TScoringSum.scores of a registered system on the rows rps
CallTScoringSum(name, rps, rsc) ==
    /\ call' = [NoCall EXCEPT !.fn = "TScoringSum.scores", !.name = name, !.rps = rps,
                              !.rsc = rsc, !.sc = TScoringSum_scores_of(name, rps, rsc)]
    /\ UNCHANGED database
    /\ Rest

NextScoring ==
    \/ \E C \in CountLists : \E P \in PointLists : CallAdjustRankScore(C, Points(P))
    \/ \E ccg \in Ledgers : \E dpsg \in DrawsOf(scoring_system) : CallGameScores(ccg, dpsg)
    \/ \E name \in R_SCORING_SYSTEMS \cup UnknownNames : CallRoundScores(name)
    \/ \E name \in T_SCORING_SYSTEMS \cup UnknownNames : CallTournamentScores(name)
    \/ \E fn \in Validators : \E value \in ValidatedValues : CallValidator(fn, value)
    \/ \E rsc \in RoundScoreLists(RoundPlayerRows, MaxRoundsPlayed) : \E name \in T_SCORING_SYSTEMS :
           CallTScoringSum(name, RoundPlayerRows, rsc)

SpecScoring == InitScoring /\ [][NextScoring]_vars

\* ------------------------------------------- the score pages between requests
\* The pages that show scores call scores() on what is stored when they are
\* asked for.  Here the boards of the rounds are created and take the first
\* year's counts ("rounds"), or one board takes the counts of its start year
\* and of a later year, with and without a solo and with more centres than
\* the board has ("totals"); between the requests scores() is called on the
\* stored games, rounds and tournament, with and without force_recalculation.

\* the game scoring systems of the rounds whose scores are asked for
QuerySystems == {"Draw size", "Sum of Squares"}

InitQueries ==
    /\ the_round \in Schedules
    /\ scoring_system \in QuerySystems
    /\ final_year \in FinalYearChoices
    /\ dias = FALSE
    /\ scope \in {"rounds", "totals"}
    /\ scope = "totals" =>
           /\ \A g \in Games : the_round[g] = 1
           /\ final_year = NoYear
           /\ scoring_system = "Draw size"
    /\ database = EmptyDatabase
    /\ last = NoRequest
    /\ writers = [w \in Writers |-> IdleWriter]
    /\ call = NoCall

\* variant of what Game.scores leaves behind that stores the scores it computed
Game_scores_leaves_stored(db, g, res) ==
    [db EXCEPT !.pts = res.pts,
               !.gsc[g] = [p \in Powers |-> IF p \in DOMAIN res.sc THEN res.sc[p] ELSE @[p]]]

\* what Game.scores leaves behind: no row is written; a CDiplo system keeps
\* its position_pts
Game_scores_leaves(db, g, res) == [db EXCEPT !.pts = res.pts]

\* what a call of scores() on stored game or round id left in `call`
Queried(fn, id, force, res, parts) ==
    [NoCall EXCEPT !.fn = fn, !.id = id, !.force = force, !.name = scoring_system,
                   !.sc = res.sc, !.err = res.err, !.parts = parts]

GameQueried(g, force, res) ==
    /\ call' = Queried("Game.scores", g, force, res, <<>>)
    /\ database' = Game_scores_leaves(database, g, res)

\* Game.scores(force_recalculation) of a stored game
QueryGameScores(g, force) ==
    /\ call = NoCall
    /\ g \in games
    /\ GameQueried(g, force, Game_scores(database, g, force))
    /\ Rest

\* the mappings the loop of RScoringBest.scores collects, when it runs
RoundParts(db, r, force) ==
    IF Round_is_finished(db, r) /\ ~force THEN <<>>
    ELSE RSB_game_scores(db, Round_game_set(db, r),
                         [gsc |-> <<>>, pts |-> db.pts, err |-> ""]).gsc

RoundQueried(r, force, res) ==
    /\ call' = Queried("Round.scores", r, force, res, RoundParts(database, r, force))
    /\ database' = [database EXCEPT !.pts = res.pts]

\* Round.scores(force_recalculation) of a round with a board
QueryRoundScores(r, force) ==
    /\ call = NoCall
    /\ Round_game_set(database, r) # {}
    /\ RoundQueried(r, force, Round_scores(database, r, force))
    /\ Rest

TournamentQueried(force, res) ==
    /\ call' = Queried("Tournament.scores", 0, force, res, <<>>)
    /\ database' = [database EXCEPT !.pts = res.pts]

\* Tournament.scores(force_recalculation)
QueryTournamentScores(force) ==
    /\ call = NoCall
    /\ games # {}
    /\ TournamentQueried(force, Tournament_scores(database, force))
    /\ Rest

\* the page has been sent: nothing of the call is kept
QueryDone ==
    /\ call # NoCall
    /\ call' = NoCall
    /\ UNCHANGED database
    /\ Rest

NextQueries ==
    \/ \E g \in BoardsIn(scope) : call = NoCall /\ CreateGame(g)
    \/ \E g \in Games : \E forms \in Submissions(scope) : \E ended \in BOOLEAN :
           call = NoCall /\ PostScCounts(g, forms, ended)
    \/ \E g \in Games : \E force \in BOOLEAN : QueryGameScores(g, force)
    \/ \E r \in Rounds : \E force \in BOOLEAN : QueryRoundScores(r, force)
    \/ \E force \in BOOLEAN : QueryTournamentScores(force)
    \/ QueryDone

SpecQueries == InitQueries /\ [][NextQueries]_vars

\* ------------------------------------------------------------ properties
\* the board the last request was about
LastGame == IF last.game \in Games THEN last.game ELSE 1

\* C1: a game's is_finished flag is never reset: whatever request is handled
\* next (counts, a draw vote, the "game ended" box, a plain Game.save), a
\* game that is finished before it is finished after it.
C1_FinishedIsTerminal ==
    [][\A g \in Games : is_finished[g] => is_finished'[g]]_vars

\* a finished game took counts with the "game ended" box unticked, and the
\* request went through
C1_Witness ==
    /\ last.op = "sc_counts"
    /\ last.was_finished
    /\ ~last.ended
    /\ Result = "ok"
    /\ is_finished[LastGame]

\* C2: finalization (the block under "if self.is_finished" of Game.save)
\* fires exactly once per game, on the transition to finished: no request
\* runs it twice, and a request for a game that was already finished does
\* not run it at all.
C2_FinalizationOnce ==
    last.op # "none" =>
        /\ database.ran <= 1
        /\ last.was_finished => database.ran = 0

\* C3: once a game is finished the scores stored on its GamePlayers are
\* frozen: no later request changes them.
C3_ScoresFrozen ==
    [][\A g \in Games : is_finished[g] => gp_score'[g] = gp_score[g]]_vars

\* C4: cascade idempotence: a Game.save of a finished game whose
\* finalization has already run to its end, and whose ledger and draw
\* proposals have not changed since, leaves every stored GamePlayer,
\* RoundPlayer and TournamentPlayer score as it was.
C4_CascadeIdempotent ==
    [][\A g \in Games :
          (last'.op = "game_save" /\ last'.game = g /\ is_finished[g] /\ database.done[g])
              => (gp_score' = gp_score /\ rp_score' = rp_score /\ tp_score' = tp_score)]_vars

\* every GamePlayer of game g holds what the game scoring system gives its power
GameScoresStored(db, g) ==
    LET res == Game_scores(db, g, TRUE)
    IN  /\ res.err = ""
        /\ \A p \in Powers : p \in DOMAIN res.sc /\ db.gsc[g][p] = res.sc[p]

\* every RoundPlayer who played in round r holds what the round scoring gives
RoundScoresStored(db, r) ==
    LET res == Round_scores(db, r, TRUE)
    IN  /\ res.err = ""
        /\ \A pl \in DOMAIN res.sc : db.rsc[r][pl] = res.sc[pl]

\* every TournamentPlayer holds what the tournament scoring gives
TournamentScoresStored(db) ==
    LET res == Tournament_scores(db, TRUE)
    IN  /\ res.err = ""
        /\ \A pl \in Players : pl \in DOMAIN res.sc /\ db.tsc[pl] = res.sc[pl]

\* the scores that the cascade owes game g are stored
CascadeStored(db, g) ==
    /\ GameScoresStored(db, g)
    /\ Round_is_finished(db, the_round[g]) => RoundScoresStored(db, the_round[g])
    /\ Tournament_is_finished(db) => TournamentScoresStored(db)

\* the last request ended in a Game.save of a finished game that returned
SavedFinished ==
    /\ last.op \in {"game_save", "sc_counts", "draw_vote"}
    /\ Result = "ok"
    /\ database.ran >= 1

\* C5: after a Game.save of a finished game completes, every GamePlayer of
\* the game holds the game-scoring result for its power; if the round is
\* then finished every RoundPlayer who played holds the round-scoring
\* result; if the tournament is then finished every TournamentPlayer holds
\* the tournament-scoring result.
C5_CascadePostcondition ==
    SavedFinished => CascadeStored(database, LastGame)

\* both rounds are finished, the last save stored everything, and somebody
\* has a tournament score
C5_Witness ==
    /\ SavedFinished
    /\ Tournament_is_finished(database)
    /\ \A r \in Rounds : Round_game_set(database, r) # {}
    /\ \E pl \in Players : tp_score[pl] > 0
    /\ CascadeStored(database, LastGame)

\* C6: ledger write, finish check and cascade are all-or-nothing: after a
\* request that records counts, records a draw proposal or marks the game
\* ended has returned or raised, the game is not finished with the scores
\* the cascade owes it missing.
C6_AllOrNothing ==
    (last.op \in {"sc_counts", "draw_vote"} /\ is_finished[LastGame])
        => CascadeStored(database, LastGame)

\* C7: after DrawProposal.save the game is finished if the proposal has
\* passed, whatever its year; saving a proposal that has not passed leaves
\* is_finished as it was.
C7_DrawProposalSave ==
    [][(last'.op = "draw_vote" /\ proposals' # proposals)
          => is_finished'[last'.game] = (is_finished[last'.game] \/ last'.passed)]_vars

\* a passed proposal for a year that is not the last year of the ledger
\* finished a game that was in progress
C7_Witness ==
    /\ last.op = "draw_vote"
    /\ last.passed
    /\ ~last.was_finished
    /\ is_finished[LastGame]
    /\ \E d \in proposals[LastGame] :
           d.passed /\ d.year # GSS_final_year(cc[LastGame])

\* the counts tried in single CentreCount rows
CountValues == {0, StartingCentres, WINNING_SCS - 1, WINNING_SCS}

\* C8: after CentreCount.save of (game, power, year, count) the game is
\* finished if count >= 18, or if the round has a final_year and year equals
\* it; otherwise is_finished is unchanged by the save.
C8_CentreCountSave ==
    \A g \in games : \A p \in Powers : \A year \in Years : \A count \in CountValues :
        CentreCount_save(Begin(g), g, p, year, count).fin[g]
            = \/ is_finished[g]
              \/ count >= 18
              \/ (final_year # NoYear /\ year = final_year)

\* a row with a winning count finished a game in progress: the save of the
\* row raised out of the request, before the view's own g.save()
C8_Witness ==
    /\ last.op = "sc_counts"
    /\ ~last.was_finished
    /\ ~last.ended
    /\ final_year = NoYear
    /\ database.exc # ""
    /\ \E y \in Years : cc[LastGame][1][y] >= 18
    /\ is_finished[LastGame]

\* C9: submitting "game ended" with a valid set of counts marks the game
\* finished and runs finalization, also when nobody has 18 centres, no draw
\* has passed and the round's final year has not been recorded.
C9_GameEndedBox ==
    (last.op = "sc_counts" /\ last.ended /\ database.ret = ""
        /\ database.exc # "AssertionError")
        => (is_finished[LastGame] /\ database.ran >= 1)

\* the box finished a game in progress that nothing else would have finished
C9_Witness ==
    /\ last.op = "sc_counts"
    /\ last.ended
    /\ ~last.was_finished
    /\ Result = "ok"
    /\ final_year = NoYear
    /\ ~Game_soloer(cc[LastGame])
    /\ PassedDraws(proposals[LastGame]) = {}
    /\ is_finished[LastGame]
    /\ database.ran = 1

\* C10: Round.is_finished() is true iff the round has at least one game and
\* every one of its games is finished, on the flags as they now are.
C10_RoundIsFinished ==
    \A r \in Rounds :
        Round_is_finished(database, r)
            = /\ \E g \in games : the_round[g] = r
              /\ \A g \in games : the_round[g] = r => is_finished[g]

\* a round of two boards became finished when its second board did, while
\* the other round has no board yet
C10_Witness ==
    /\ \E r \in Rounds :
          /\ Cardinality(Round_game_set(database, r)) = 2
          /\ Round_is_finished(database, r)
    /\ \E r \in Rounds : Round_game_set(database, r) = {} /\ ~Round_is_finished(database, r)
    /\ last.op = "sc_counts"
    /\ ~last.was_finished

\* C11: Tournament.is_finished() is true iff every round of the tournament
\* is finished, that is iff every round has a game and no game of any round
\* is unfinished; a round without games, or with an unfinished game, makes
\* it false.
C11_TournamentIsFinished ==
    Tournament_is_finished(database)
        = \A r \in Rounds :
              /\ \E g \in games : the_round[g] = r
              /\ \A g \in games : the_round[g] = r => is_finished[g]

\* the request that finished the last unfinished board finished the
\* tournament, each round having one board
C11_Witness ==
    /\ Tournament_is_finished(database)
    /\ \A r \in Rounds : Cardinality(Round_game_set(database, r)) = 1
    /\ last.op = "sc_counts"
    /\ ~last.was_finished
    /\ last.ended

\* C12: validating a centre-count row fails with a ValidationError when the
\* same game and power have a row for the year before and the new count is
\* more than twice that count, or is above 0 after a count of 0; when there
\* is no row for the year before, the comparison is skipped and the row is
\* accepted (unless its year is past the round's final year).  The view
\* shows the failure as the form with an error, or trips over the delete()
\* of the row it had not saved yet.
C12_ProgressionChecked ==
    \A g \in games : \A p \in Powers : \A year \in Years : \A count \in CountValues :
        LET prev == IF (year - 1) \in Years THEN cc[g][p][year - 1] ELSE NoCount
            d == SCRow(Begin(g), g, year, p, count)
            rejected == d.ret = "ValidationError" \/ d.exc = "AssertionError"
        IN  /\ (prev # NoCount /\ (count > 2 * prev \/ (prev = 0 /\ count > 0)))
                   => rejected
            /\ (prev = NoCount /\ ~(final_year # NoYear /\ year > final_year))
                   => (~rejected /\ d.cc[g][p][year] = count)

\* a request was stopped at the row of a power that had been eliminated the
\* year before, after it had stored the rows of the powers before it
C12_Witness ==
    /\ last.op = "sc_counts"
    /\ database.exc = "AssertionError"
    /\ \E y \in Years : (y + 1) \in Years
          /\ cc[LastGame][NumPowers][y] = 0
          /\ cc[LastGame][NumPowers][y + 1] = NoCount
          /\ cc[LastGame][1][y + 1] # NoCount

\* C13: doubling invariant: in every reachable ledger, whatever rows were
\* recorded and corrected in place, a power's count for a year is at most
\* twice its count for the year before, where both years are recorded.
C13_Doubling ==
    \A g \in games : \A p \in Powers : \A y \in Years :
        ((y + 1) \in Years /\ cc[g][p][y] # NoCount /\ cc[g][p][y + 1] # NoCount)
            => cc[g][p][y + 1] <= 2 * cc[g][p][y]

\* C14: elimination is permanent: in every reachable ledger a power with a
\* count of 0 for some year has no count above 0 for any later year of the
\* game, whether or not the years in between are recorded.
C14_EliminationPermanent ==
    \A g \in games : \A p \in Powers : \A y \in Years : \A z \in Years :
        (y < z /\ cc[g][p][y] = 0) => cc[g][p][z] <= 0

C16_OneRowPerPowerYear ==
    \A g \in games : \A forms \in Submissions(scope) : \A ended \in BOOLEAN :
        LET d == sc_counts(Begin(g), g, forms, ended)
        IN  (d.ret = "" /\ d.exc = "")
                => \A i \in 1..Len(forms) : \A p \in Powers :
                       d.cc[g][p][forms[i].year] = forms[i].counts[p]

\* a request that went through gave a stored row another count
C16_Witness ==
    /\ last.op = "sc_counts"
    /\ last.replaced
    /\ Result = "ok"
    /\ \E y \in Years : \A p \in Powers : cc[LastGame][p][y] # NoCount

\* C17: whatever draw proposals are recorded for a game, at most one of
\* its stored proposals has passed: a proposal with passed set, made while
\* the game has a passed proposal, is refused with a validation error and
\* not stored.
C17_OnePassedDraw ==
    [][/\ \A g \in Games : Cardinality(PassedDraws(proposals'[g])) <= 1
       /\ (last'.op = "draw_vote" /\ last'.passed
              /\ PassedDraws(proposals[last'.game]) # {})
             => (proposals' = proposals /\ database'.ret = "ValidationError")]_vars

\* a second passed proposal was refused
C17_Witness ==
    /\ last.op = "draw_vote"
    /\ last.passed
    /\ last.was_finished
    /\ Result = "ValidationError"
    /\ Cardinality(PassedDraws(proposals[LastGame])) = 1

\* C18: a draw proposal that includes a power whose centre count for the
\* decision year (the last recorded year, as DrawProposal.clean takes it)
\* is 0 is refused and not stored: no draw_vote request stores a proposal
\* that names such a power.
C18_NoDeadPowerInDraw ==
    [][(last'.op = "draw_vote" /\ proposals' # proposals)
          => \A d \in proposals'[last'.game] \ proposals[last'.game] :
                 ~IncludesDead(cc[last'.game], d.powers)]_vars

\* the nonempty sets of powers a proposal can name
DrawPowerSets == (SUBSET Powers) \ {{}}

\* C19: in a round with dias set, a draw proposal that leaves out a power
\* with centres in the decision year fails validation; in a round without
\* dias such a proposal passes validation (unless it names an eliminated
\* power, or is a second passed proposal).
C19_DiasNeedsAllSurvivors ==
    \A g \in games : \A powers \in DrawPowerSets : \A passed \in BOOLEAN :
        OmitsSurvivor(cc[g], powers) =>
            IF dias
            THEN DrawProposal_clean(database, g, passed, powers) = "ValidationError"
            ELSE (~IncludesDead(cc[g], powers) /\ ~(passed /\ PassedDraws(proposals[g]) # {}))
                     => DrawProposal_clean(database, g, passed, powers) = ""

\* in a DIAS round, a draw vote whose powers left out a power that has
\* centres in the last recorded year was refused
C19_Witness ==
    /\ dias
    /\ last.op = "draw_vote"
    /\ last.omitted
    /\ Result = "ValidationError"
    /\ proposals[LastGame] = {}

\* C20: concurrent writers of a game's centre counts are serialized: in
\* no interleaving of two requests is a row saved that CentreCount.clean
\* would refuse on the ledger as it is when the row is saved (the rule was
\* checked on a ledger the other writer has changed since), and in none is
\* a finish that one request detected undone by the other.
C20_WritersSerialized ==
    [][/\ is_finished[WritersGame] => is_finished'[WritersGame]
       /\ \A w \in Writers :
             (writers[w].pc = "cleaned" /\ writers'[w].pc # "cleaned"
                  /\ writers'[w].out # "IntegrityError")
                 => ~CentreCount_clean(database, WritersGame, writers[w].k,
                                       writers[w].year, writers[w].counts[writers[w].k])]_vars

\* ------------------------------------------- the scoring functions (C21-)
\* the counts of a list are all the same
AllTied(C) == \A i, j \in 1..Len(C) : C[i] = C[j]

\* adjust_rank_score returned one value per row, tied rows got the same
\* value, and the values add up to the points of the position list
SharesAllPoints ==
    /\ call.err = ""
    /\ Len(call.ret) = Len(call.C)
    /\ \A i, j \in 1..Len(call.C) : call.C[i] = call.C[j] => call.ret[i] = call.ret[j]
    /\ SumSeq(call.ret) = SumSeq(call.P)

\* C21: for every position list P and every list of counts C sorted
\* descending, adjust_rank_score(C, P) returns one value per element of C, in
\* the same order, and the values sum to the sum of P, however the counts tie.
C21_AllocatorSums ==
    call.fn = "adjust_rank_score" => SharesAllPoints

\* what C21 says holds when P is empty or C is at least as long as P; for a C
\* shorter than a P that is not empty the call raises IndexError
AllocatorSumsLongEnough ==
    call.fn = "adjust_rank_score" =>
        IF Len(call.P) = 0 \/ Len(call.C) >= Len(call.P)
        THEN SharesAllPoints
        ELSE call.err = "IndexError"

\* a final year of seven powers, two tied at the top and four eliminated,
\* was ranked against three places: 46 points were shared out
AllocatorSumsReached ==
    /\ call.fn = "adjust_rank_score"
    /\ call.C = <<10, 10, 6, 0, 0, 0, 0>>
    /\ call.P = Points(<<25, 14, 7>>)
    /\ call.err = ""
    /\ 2 * call.ret[1] = 39 * Fine
    /\ call.ret[3] = 7 * Fine
    /\ SumSeq(call.ret) = 46 * Fine

\* every row got the same share of all the points of the position list
SplitEvenly ==
    /\ call.err = ""
    /\ Len(call.ret) = Len(call.C)
    /\ \A k \in 1..Len(call.ret) : call.ret[k] * Len(call.C) = SumSeq(call.P)

\* an empty position list gave every row 0
AllZero ==
    /\ call.err = ""
    /\ Len(call.ret) = Len(call.C)
    /\ \A k \in 1..Len(call.ret) : call.ret[k] = 0

\* C22: when every count of C is equal, adjust_rank_score gives each
\* power sum(P) / len(C), also when C is longer than P; for an empty P it
\* returns 0 for every power.
C22_AllTied ==
    call.fn = "adjust_rank_score" =>
        /\ (call.C # <<>> /\ AllTied(call.C)) => SplitEvenly
        /\ call.P = <<>> => AllZero

\* what C22 says holds for an all-tied C that is at least as long as P and
\* for an empty P; an all-tied C shorter than P raises IndexError
AllTiedLongEnough ==
    call.fn = "adjust_rank_score" =>
        /\ (call.C # <<>> /\ AllTied(call.C) /\ Len(call.C) >= Len(call.P)) => SplitEvenly
        /\ (call.C # <<>> /\ AllTied(call.C) /\ Len(call.C) < Len(call.P)) =>
               call.err = "IndexError"
        /\ call.P = <<>> => AllZero

\* four tied powers were ranked against two places and got 39 / 4 points each
AllTiedReached ==
    /\ call.fn = "adjust_rank_score"
    /\ call.C = <<6, 6, 6, 6>>
    /\ call.P = Points(<<25, 14>>)
    /\ call.err = ""
    /\ \A k \in 1..4 : 4 * call.ret[k] = 39 * Fine

\* C23: adjust_rank_score has no side effects: when it has returned, the
\* caller's position list (for CDiplo the system's position_pts) has the
\* length and the values it had before the call.
C23_AllocatorPure ==
    call.fn \in {"adjust_rank_score", "Game.scores"} => call.after = call.P

\* the count of power p in the last year the scored ledger has a row for
FinalCount(p) == call.ccg[p][SetMax({y \in Years : call.ccg[p][y] # NoCount})]

\* Game.scores was called for a round configured with the system `name`
ScoredUnder(name) == call.fn = "Game.scores" /\ call.name = name

\* scores() returned a mapping with a score for every power
ScoredAll == call.err = "" /\ DOMAIN call.sc = Powers

\* some power held the winning number of centres in some year of the ledger
Soloed == \E p \in Powers : \E y \in Years : call.ccg[p][y] >= WINNING_SCS

\* C24: under "Solo or bust" a power with 18 or more centres in the final
\* year scores 100 and every other power 0; when no power has 18, all score
\* 0.  Only the rows of the most recent year count.
C24_SoloOrBust ==
    ScoredUnder("Solo or bust") =>
        /\ ScoredAll
        /\ \A p \in Powers :
               call.sc[p] = IF FinalCount(p) >= WINNING_SCS THEN 100 * Unit ELSE 0

\* the first power held 18 centres in the year before the last and none in
\* the last, which the second power won: the second scores 100, the first 0
C24_Witness ==
    /\ ScoredUnder("Solo or bust")
    /\ call.ccg[1][FIRST_YEAR] = WINNING_SCS
    /\ FinalCount(1) = 0
    /\ FinalCount(2) = WINNING_SCS
    /\ call.sc[1] = 0
    /\ call.sc[2] = 100 * Unit

\* C25: under "Draw size", when a draw that names k powers has passed and no
\* power soloed, each named power scores 100 / k and every power that is not
\* named scores 0, eliminated or surviving.
C25_DrawSizePassedDraw ==
    (ScoredUnder("Draw size") /\ call.dps # {} /\ ~Soloed) =>
        /\ ScoredAll
        /\ \A d \in call.dps : \A p \in Powers :
               IF p \in d.powers
               THEN call.sc[p] * Cardinality(d.powers) = 100 * Unit
               ELSE call.sc[p] = 0

\* the number of powers with centres in the final year
Survivors == Cardinality({p \in Powers : FinalCount(p) > 0})

SoloerPts(name) == IF name = "CDiplo 100" THEN 100 ELSE 80

\* the top power of the final year has the winning number of centres
FinalYearSolo == \E p \in Powers : FinalCount(p) >= WINNING_SCS

\* C27: under a CDiplo system, when the top power of the final year has 18 or
\* more centres it scores soloer_pts and every other power loss_pts (0), with
\* nothing added for centres or position; CDiplo 100 then gives what
\* "Solo or bust" gives.
C27_CDiploSolo ==
    (call.fn = "Game.scores" /\ call.name \in CDiploNames /\ FinalYearSolo) =>
        /\ ScoredAll
        /\ \A p \in Powers :
               call.sc[p] = IF FinalCount(p) >= WINNING_SCS
                            THEN SoloerPts(call.name) * Unit ELSE 0
        /\ call.name = "CDiplo 100" => call.sc = GScoringSolos_scores(call.ccg)

\* CDiplo 100 scored a final year of 18, 10 and 6 centres
C27_Witness ==
    /\ ScoredUnder("CDiplo 100")
    /\ FinalCount(1) = WINNING_SCS
    /\ FinalCount(2) = 10
    /\ FinalCount(NumPowers) = 6
    /\ call.sc[1] = 100 * Unit
    /\ call.sc[2] = 0
    /\ call.sc[NumPowers] = 0

\* the rows of the final year of the scored ledger, largest count first
FinalRows == GSS_final_year_scs(call.ccg)

\* the place of power p among the rows of the final year
PlaceOf(p) == CHOOSE k \in 1..Len(FinalRows) : FinalRows[k].power = p

\* the position bonus of power p from [first_pts, second_pts, third_pts]
PositionBonus(name, p) ==
    adjust_rank_score(FinalRows, InitialPositionPts[name]).ret[PlaceOf(p)]

\* C28: under a CDiplo system, without a solo, every power scores played_pts
\* plus its final-year centres plus its position bonus, the points of
\* [first_pts, second_pts, third_pts] shared between tied powers; CDiplo 80
\* gives two leaders on 10 centres 29.5 each and a third on 6 centres 13.
C28_CDiploNoSolo ==
    (call.fn = "Game.scores" /\ call.name \in CDiploNames /\ ~FinalYearSolo) =>
        /\ ScoredAll
        /\ \A p \in Powers :
               call.sc[p] = CDiploArgs(call.name).played_pts * Unit
                                + FinalCount(p) * Unit + PositionBonus(call.name, p)

\* the sum of the squares of the final-year counts
SumOfSquares == SumSeq([p \in 1..NumPowers |-> FinalCount(p) * FinalCount(p)])

\* C29: under "Sum of Squares" a power with 18 or more centres in the final
\* year scores 100 and the others 0; otherwise each power scores
\* 100 * count^2 / (sum of count^2), which adds up to 100 (here: to within
\* the score units lost by truncation); a sum of squares of 0 is an error and
\* no scores are returned.
C29_SumOfSquares ==
    ScoredUnder("Sum of Squares") =>
        IF FinalYearSolo
        THEN /\ ScoredAll
             /\ \A p \in Powers :
                    call.sc[p] = IF FinalCount(p) >= WINNING_SCS THEN 100 * Unit ELSE 0
        ELSE IF SumOfSquares = 0
        THEN call.err # "" /\ call.sc = <<>>
        ELSE /\ ScoredAll
             /\ \A p \in Powers :
                    call.sc[p] = (100 * Unit * FinalCount(p) * FinalCount(p)) \div SumOfSquares
             /\ SumSeq([p \in 1..NumPowers |-> call.sc[p]]) <= 100 * Unit
             /\ SumSeq([p \in 1..NumPowers |-> call.sc[p]]) > 100 * Unit - NumPowers

\* powers on 10, 10 and 0 centres were scored: 50, 50 and 0
C29_Witness ==
    /\ ScoredUnder("Sum of Squares")
    /\ FinalCount(1) = 10
    /\ FinalCount(2) = 10
    /\ FinalCount(NumPowers) = 0
    /\ call.sc[1] = 50 * Unit
    /\ call.sc[2] = 50 * Unit
    /\ call.sc[NumPowers] = 0

\* C30: a live scores() of a game, a round or a tournament whose configured
\* scoring system name is not registered raises InvalidScoringSystem and
\* returns no mapping.
C30_UnknownSystemFails ==
    LET failed == call.err = "InvalidScoringSystem" /\ call.sc = <<>>
    IN  /\ (call.fn = "Game.scores" /\ call.name \notin G_SCORING_SYSTEMS) => failed
        /\ (call.fn = "Round.scores" /\ call.name \notin R_SCORING_SYSTEMS) => failed
        /\ (call.fn = "Tournament.scores" /\ call.name \notin T_SCORING_SYSTEMS) => failed
        /\ (call.fn \in {"Round.scores", "Tournament.scores"}
                /\ scoring_system \notin G_SCORING_SYSTEMS) => failed

\* the scores of a round were asked for under a round scoring system name
\* that is not registered
C30_Witness ==
    /\ call.fn = "Round.scores"
    /\ call.name = "Unknown"
    /\ scoring_system \in G_SCORING_SYSTEMS
    /\ call.err = "InvalidScoringSystem"

\* C36: a centre count below 0 or above 34 is refused with ValidationError,
\* and no other; validate_year refuses every year below 1901 and no other;
\* the validator of the year of a centre-count record accepts 1900 as well
\* and refuses every year below 1900.
C36_RangeValidation ==
    /\ call.fn = "validate_sc_count" =>
           (call.err = "ValidationError") = (call.value < 0 \/ call.value > 34)
    /\ call.fn = "validate_year" =>
           (call.err = "ValidationError") = (call.value < 1901)
    /\ call.fn = "validate_year_including_start" =>
           (call.err = "ValidationError") = (call.value < 1900)
    /\ call.fn \in Validators => call.err \in {"", "ValidationError"}

\* the validator of the year of a centre-count record accepted 1900
C36_Witness ==
    /\ call.fn = "validate_year_including_start"
    /\ call.value = 1900
    /\ call.err = ""
    /\ validate_year(call.value) = "ValidationError"

\* C39: CDiplo scoring is deterministic across calls: what Game.scores gives
\* for a game under a CDiplo system depends on the game's final-year counts
\* and the configured points alone, so that it gives the game, after any
\* calls for other games, what it would have given it first.
C39_CDiploDeterministic ==
    (call.fn = "Game.scores" /\ call.name \in CDiploNames) =>
        /\ call.sc = GScoringCDiplo_scores(call.name, call.ccg,
                                           InitialPositionPts[call.name]).sc
        /\ call.err = GScoringCDiplo_scores(call.name, call.ccg,
                                            InitialPositionPts[call.name]).err

\* the rounds of the scored rows that player pl has a round score for
ScoredRoundsFor(pl) ==
    {r \in 1..MaxRoundsPlayed : <<r, pl>> \in call.rps /\ pl \in DOMAIN call.rsc[r]}

\* the sum of player pl's round scores over the rounds rs
RECURSIVE SumOverRounds(_, _)
SumOverRounds(rs, pl) ==
    IF rs = {} THEN 0
    ELSE call.rsc[SetMin(rs)][pl] + SumOverRounds(rs \ {SetMin(rs)}, pl)

\* C34: under "Sum best N rounds" the tournament score of every player with
\* a RoundPlayer is the sum of the N highest of the player's round scores,
\* no N rounds of the player adding up to more (a round that has no score
\* for the player adds nothing); a player with scores for N rounds or fewer
\* gets the sum of them all.
C34_SumBestRounds ==
    call.fn = "TScoringSum.scores" =>
        /\ DOMAIN call.sc = {rp[2] : rp \in call.rps}
        /\ \A pl \in DOMAIN call.sc :
               IF Cardinality(ScoredRoundsFor(pl)) <= ScoredRoundsOf(call.name)
               THEN call.sc[pl] = SumOverRounds(ScoredRoundsFor(pl), pl)
               ELSE /\ \E rs \in SUBSET ScoredRoundsFor(pl) :
                          /\ Cardinality(rs) = ScoredRoundsOf(call.name)
                          /\ call.sc[pl] = SumOverRounds(rs, pl)
                    /\ \A rs \in SUBSET ScoredRoundsFor(pl) :
                          Cardinality(rs) = ScoredRoundsOf(call.name)
                              => SumOverRounds(rs, pl) <= call.sc[pl]

\* under "Sum best 2 rounds" a player with round scores 30, 10 and 30 got 60,
\* and a player with one round score of 10 got 10
C34_Witness ==
    /\ call.fn = "TScoringSum.scores"
    /\ call.name = "Sum best 2 rounds"
    /\ ScoredRoundsFor(1) = {1, 2, 3}
    /\ call.rsc[1][1] = 30 * Unit /\ call.rsc[2][1] = 10 * Unit /\ call.rsc[3][1] = 30 * Unit
    /\ call.sc[1] = 60 * Unit
    /\ ScoredRoundsFor(2) = {1}
    /\ call.rsc[1][2] = 10 * Unit
    /\ call.sc[2] = 10 * Unit

\* round r has a board and every board of it is finished
RoundOver(r) ==
    /\ \E g \in games : the_round[g] = r
    /\ \A g \in games : the_round[g] = r => is_finished[g]

\* what the game scoring system gives stored game g on its ledger and draw
\* proposals as they are
LiveGameScores(g) == GameScoresLive(scoring_system, cc[g], proposals[g], position_pts)

\* scores() returned the mapping or raised the exception of res
Returned(res) == call.sc = res.sc /\ call.err = res.err

\* C31: scores() without force_recalculation returns, for a finished game,
\* the scores stored on its GamePlayers by power, for a finished round the
\* scores stored on its RoundPlayers by player and for a finished tournament
\* those stored on its TournamentPlayers, whatever the ledger now holds; for
\* a game, round or tournament that is not finished it returns what the
\* scoring system computes.
C31_StoredOrLive ==
    ~call.force =>
        /\ call.fn = "Game.scores" =>
               IF is_finished[call.id]
               THEN call.err = "" /\ call.sc = [p \in Powers |-> gp_score[call.id][p]]
               ELSE Returned(LiveGameScores(call.id))
        /\ call.fn = "Round.scores" =>
               IF RoundOver(call.id)
               THEN /\ call.err = ""
                    /\ call.sc = [pl \in RoundPlayers(call.id) |-> rp_score[call.id][pl]]
               ELSE Returned(RScoringBest_scores(database, call.id))
        /\ call.fn = "Tournament.scores" =>
               IF \A r \in Rounds : RoundOver(r)
               THEN call.err = "" /\ call.sc = [pl \in Players |-> tp_score[pl]]
               ELSE Returned(TScoringSum_scores(database))

\* a finished game whose stored scores are not what its ledger now gives was
\* asked for its scores, and returned the stored ones
C31_Witness ==
    /\ call.fn = "Game.scores"
    /\ ~call.force
    /\ is_finished[call.id]
    /\ call.sc = [p \in Powers |-> gp_score[call.id][p]]
    /\ call.sc # LiveGameScores(call.id).sc

\* the database with every game in progress: scores() reads no stored score of it
AllInProgress(db) == [db EXCEPT !.fin = [g \in Games |-> FALSE]]

\* C32: scores() with force_recalculation recomputes also when the game,
\* round or tournament is finished: what it returns is what the scoring
\* systems give on the ledgers and draw proposals as they are, with no score
\* read from the GamePlayers of a finished game or the RoundPlayers of a
\* finished round.
C32_ForceRecomputes ==
    call.force =>
        /\ call.fn = "Game.scores" => Returned(LiveGameScores(call.id))
        /\ call.fn = "Round.scores" =>
               Returned(Round_scores(AllInProgress(database), call.id, TRUE))
        /\ call.fn = "Tournament.scores" =>
               Returned(Tournament_scores(AllInProgress(database), TRUE))

\* the seats player pl holds on the boards of the round that was asked for
QueriedSeats(pl) == SeatsOf(database, call.id, pl)

\* C33: "Best game counts": the round score of a player is the highest of
\* the player's game scores over the games of the round the player has a
\* seat in, a game in progress being scored as if it ended now; the mapping
\* that is returned has one entry for every player with a seat, and no other.
C33_BestGameCounts ==
    (call.fn = "Round.scores" /\ (call.force \/ ~RoundOver(call.id)) /\ call.err = "") =>
        /\ DOMAIN call.sc = {pl \in Players : QueriedSeats(pl) # {}}
        /\ \A pl \in DOMAIN call.sc :
               /\ \E gp \in QueriedSeats(pl) : call.sc[pl] = call.parts[gp[1]][gp[2]]
               /\ \A gp \in QueriedSeats(pl) : call.sc[pl] >= call.parts[gp[1]][gp[2]]
        /\ \A g \in Round_game_set(database, call.id) :
               ~is_finished[g] => call.parts[g] = LiveGameScores(g).sc

\* a player with seats on two boards of the round, one of them in progress,
\* got the higher of two different game scores
C33_Witness ==
    /\ call.fn = "Round.scores"
    /\ ~RoundOver(call.id)
    /\ call.err = ""
    /\ \E pl \in DOMAIN call.sc : \E gp, gq \in QueriedSeats(pl) :
           /\ ~is_finished[gp[1]]
           /\ call.parts[gp[1]][gp[2]] < call.parts[gq[1]][gq[2]]
           /\ call.sc[pl] = call.parts[gq[1]][gq[2]]

\* C35: scoring never writes: a call of scores() on a game, a round or the
\* tournament, with or without force_recalculation, leaves the centre-count
\* ledger, the draw proposals, every is_finished flag and every score stored
\* on a GamePlayer, RoundPlayer or TournamentPlayer as it was.
C35_ScoringNeverWrites ==
    [][(call.fn = "none" /\ call'.fn # "none") =>
          /\ games' = games
          /\ cc' = cc
          /\ proposals' = proposals
          /\ is_finished' = is_finished
          /\ gp_score' = gp_score
          /\ rp_score' = rp_score
          /\ tp_score' = tp_score]_vars

\* scores() was forced on a finished game whose ledger gives other scores
\* than are stored, and the stored scores are still what they were
C35_Witness ==
    /\ call.fn = "Game.scores"
    /\ call.force
    /\ is_finished[call.id]
    /\ call.sc = LiveGameScores(call.id).sc
    /\ \E p \in Powers : p \notin DOMAIN call.sc \/ call.sc[p] # gp_score[call.id][p]

\* a submission whose counts add up to more than the board has stores nothing
TooManyCentresRefused ==
    [][database'.ret = "invalid" =>
          /\ games' = games /\ cc' = cc /\ proposals' = proposals
          /\ is_finished' = is_finished
          /\ gp_score' = gp_score /\ rp_score' = rp_score /\ tp_score' = tp_score]_vars

\* such a submission was made
TooManyCentresReached == last.op = "sc_counts" /\ database.ret = "invalid"

\* C37: the counts recorded for one year of a game never add up to more than
\* 34: Game.neutrals of the year is not negative, and at most one power holds
\* 18 centres or more in the year.
C37_YearTotals ==
    \A g \in games : \A y \in Years :
        /\ Game_neutrals(cc[g], y) >= 0
        /\ Cardinality({p \in Powers : cc[g][p][y] >= 18}) <= 1

\* C40: Game.soloer() reports a soloer exactly when some power holds 18
\* centres or more in the most recent recorded year of the game, whatever
\* has been recorded or corrected since: the test Draw-size scoring makes for
\* a solo is the final-year test of the other scoring systems.
C40_SoloerIsFinalYear ==
    \A g \in games :
        Game_soloer(cc[g])
            = \E p \in Powers : cc[g][p][GSS_final_year(cc[g])] >= 18

\* C38: whenever Game.save stores the final scores of a finished game, the
\* mapping the scoring system computed has an entry for the power of every
\* GamePlayer of the game: after a request that ran the block under
\* "if self.is_finished" and returned no form, the mapping the scoring system
\* computes on the ledger the block found gives every power a score.
C38_ScoresForEveryPower ==
    (last.op # "none" /\ database.ran >= 1 /\ database.ret = "") =>
        LET res == GameScoresLive(scoring_system, cc[LastGame], proposals[LastGame],
                                  position_pts)
        IN  res.err = "" => DOMAIN res.sc = Powers

====
